---- MODULE Spec2Model ----
(***************************************************************************)
(* Model of the PDF extraction pipeline of server.py                       *)
(* (extract_pdf_images_and_text, ocr_extract_lines_with_positions and the  *)
(* /extract handler that calls them).                                      *)
(*                                                                         *)
(* Strings are sequences of one-character strings, so that strip(), join() *)
(* and the f-string formatting are computed, not assumed.  A decoded page  *)
(* is a sequence of block records as PyMuPDF's rawdict supplies them; a    *)
(* key a dict may lack is a field the record may lack.                     *)
(***************************************************************************)
EXTENDS Integers, Sequences, FiniteSets, TLC

\* ------------------------------------------------------------------ bounds
\* pages of one document
MaxPages == 2
\* blocks of one document (over all its pages)
MaxBlocks == 3
\* the same two, where two requests are modelled
TwoMaxPages == 1
TwoMaxBlocks == 2
\* tokens of one answer of the OCR engine, where the answers are enumerated
MaxTokens == 3
\* The pages and the blocks of a document whose run is followed to its end.
LiveMaxPages == 2
LiveMaxBlocks == 1
\* requests to /image and /cleanup, and blocks of the documents they are for
MaxServed == 3
SessionMaxBlocks == 1
\* The rate limiter, scaled down: the seconds of the one window every limited
\* endpoint has, the requests the expensive and the cheap endpoint let through
\* in a window, the requests followed and the seconds the clock runs.
Window == 2
LowLimit == 1
HighLimit == 2
MaxRequests == 4
MaxClock == 4
\* The requests followed and the seconds the clock runs when two threads
\* handle requests at once.
ThreadMaxRequests == 3
ThreadMaxClock == 2
\* The pages and the blocks of a page of a document /check-flattening reads.
FlatMaxPages == 2
FlatMaxBlocks == 1

\* ------------------------------------------------------------- python text
\* The characters str.strip() removes.
Whitespace == {" "}

RECURSIVE LStrip(_)
LStrip(s) == IF s # <<>> /\ Head(s) \in Whitespace THEN LStrip(Tail(s)) ELSE s

RECURSIVE RStrip(_)
RStrip(s) ==
    IF s # <<>> /\ s[Len(s)] \in Whitespace THEN RStrip(SubSeq(s, 1, Len(s) - 1)) ELSE s

\* str.strip()
Strip(s) == RStrip(LStrip(s))

\* "".join(parts)
RECURSIVE Concat(_)
Concat(parts) == IF parts = <<>> THEN <<>> ELSE Head(parts) \o Concat(Tail(parts))

\* " ".join(words)
RECURSIVE JoinSpace(_)
JoinSpace(words) ==
    IF words = <<>> THEN <<>>
    ELSE IF Len(words) = 1 THEN Head(words)
    ELSE Head(words) \o <<" ">> \o JoinSpace(Tail(words))

\* "\n".join(lines)
RECURSIVE JoinLines(_)
JoinLines(lines) ==
    IF lines = <<>> THEN <<>>
    ELSE IF Len(lines) = 1 THEN Head(lines)
    ELSE Head(lines) \o <<"\n">> \o JoinLines(Tail(lines))

DigitChar == <<"0", "1", "2", "3", "4", "5", "6", "7", "8", "9">>

\* format(n, "04d") for 0 <= n <= 9999
Fmt04d(n) ==
    << DigitChar[((n \div 1000) % 10) + 1], DigitChar[((n \div 100) % 10) + 1],
       DigitChar[((n \div 10) % 10) + 1], DigitChar[(n % 10) + 1] >>

\* str(n) for 0 <= n <= 99
RECURSIVE StrInt(_)
StrInt(n) == IF n < 10 THEN <<DigitChar[n + 1]>> ELSE StrInt(n \div 10) \o <<DigitChar[(n % 10) + 1]>>

\* f"IMAGE_{image_counter:04d}.png"
ImageName(n) == <<"IMAGE_">> \o Fmt04d(n) \o <<".png">>

SlideHeaderZeroBased(page_index) == <<"=== Slide ">> \o StrInt(page_index) \o <<" ===">>

\* f"=== Slide {page_index + 1} ==="
SlideHeader(page_index) == <<"=== Slide ">> \o StrInt(page_index + 1) \o <<" ===">>

\* A placeholder that leaves the extension of the file name out, instead.
PlaceholderStem(payload) == <<"[">> \o SubSeq(payload, 1, Len(payload) - 1) \o <<"]">>

\* f"[{payload}]"
Placeholder(payload) == <<"[">> \o payload \o <<"]">>

\* ------------------------------------------------------------ stable sort
Min2First(a, b) == a

\* min(a, b)
Min2(a, b) == IF a < b THEN a ELSE b

SetMin(S) == CHOOSE x \in S : \A y \in S : x <= y

\* Python's tuple comparison a < b for two integer tuples of equal length.
LexLess(a, b) ==
    \E i \in 1..Len(a) : a[i] < b[i] /\ \A j \in 1..(i - 1) : a[j] = b[j]

\* One step of a stable sort of <<key, element>> pairs: p goes after every
\* pair whose key is not greater.
InsertStable(p, s) ==
    LET later == {i \in 1..Len(s) : LexLess(p[1], s[i][1])}
        pos == IF later = {} THEN Len(s) + 1 ELSE SetMin(later)
    IN  SubSeq(s, 1, pos - 1) \o <<p>> \o SubSeq(s, pos, Len(s))

RECURSIVE SortPairs(_)
SortPairs(s) ==
    IF s = <<>> THEN <<>>
    ELSE InsertStable(s[Len(s)], SortPairs(SubSeq(s, 1, Len(s) - 1)))

\* list.sort(key=...) : stable, ascending by keys[i], the key of s[i]
StableSort(s, keys) ==
    LET sorted == SortPairs([i \in 1..Len(s) |-> <<keys[i], s[i]>>])
    IN  [i \in 1..Len(s) |-> sorted[i][2]]

\* -------------------------------------------------------- decoded blocks
\* Python's None, for a block with no "xref" key (xref numbers are >= 0).
None == -1

\* block.get("type", None)
BlockType(block) == IF "type" \in DOMAIN block THEN block.type ELSE None

\* block.get("bbox", [0, 0, 0, 0])
BlockBBox(block) == IF "bbox" \in DOMAIN block THEN block.bbox ELSE <<0, 0, 0, 0>>

\* block.get("lines", [])
BlockLines(block) == IF "lines" \in DOMAIN block THEN block.lines ELSE <<>>

\* block.get("xref", None)
BlockXref(block) == IF "xref" \in DOMAIN block THEN block.xref ELSE None

\* span.get("text", "")
SpanText(span) == IF "text" \in DOMAIN span THEN span.text ELSE <<>>

\* line.get("spans", [])
LineSpans(line) == IF "spans" \in DOMAIN line THEN line.spans ELSE <<>>

\* The box of the block for every line, instead.
LineBBoxOfBlock(line, bbox) == bbox

\* line.get("bbox", bbox)
LineBBox(line, bbox) == IF "bbox" \in DOMAIN line THEN line.bbox ELSE bbox

\* "".join(span.get("text", "") for span in line.get("spans", [])).strip()
LineText(line) ==
    Strip(Concat([i \in 1..Len(LineSpans(line)) |-> SpanText(LineSpans(line)[i])]))

KeepLineAlways(line_text) == TRUE

\* `if line_text:`
KeepLine(line_text) == line_text # <<>>

\* The content items of a type-0 block: one per line with text left.
RECURSIVE TextItems(_, _)
TextItems(lines, bbox) ==
    IF lines = <<>> THEN <<>>
    ELSE LET line == Head(lines)
             line_text == LineText(line)
             lbbox == LineBBox(line, bbox)
         IN  (IF KeepLine(line_text)
              THEN << <<lbbox[2], lbbox[1], "text", line_text>> >>
              ELSE <<>>) \o TextItems(Tail(lines), bbox)

TruthyAlways(xref) == TRUE

\* A test for None alone, instead.
TruthyNotNone(xref) == xref # None

\* `if xref:`
Truthy(xref) == xref # None /\ xref # 0

\* ------------------------------------------------------------------- OCR
\* float(conf_str), or -1.0 when it raises; confidences are whole numbers
\* written in decimal, with an optional sign.
Digits == {DigitChar[i] : i \in 1..10}

DigitValue(ch) == (CHOOSE i \in 1..10 : DigitChar[i] = ch) - 1

RECURSIVE DecimalValue(_)
DecimalValue(s) ==
    IF s = <<>> THEN 0
    ELSE 10 * DecimalValue(SubSeq(s, 1, Len(s) - 1)) + DigitValue(s[Len(s)])

IsDecimal(s) == s # <<>> /\ \A i \in 1..Len(s) : s[i] \in Digits

ParseConf(conf_str) ==
    IF IsDecimal(conf_str) THEN DecimalValue(conf_str)
    ELSE IF conf_str # <<>> /\ Head(conf_str) = "-" /\ IsDecimal(Tail(conf_str))
         THEN 0 - DecimalValue(Tail(conf_str))
         ELSE 0 - 1

\* data["text"][i] or ""
TokenText(tok) == IF "text" \in DOMAIN tok THEN tok.text ELSE <<>>

\* current_key = None
NoKey == <<>>

ScanStart == [items |-> <<>>, key |-> NoKey, words |-> <<>>, top |-> 0, left |-> 0]

\* The flush of the current line (lines 482-485 and 495-498).
Flush(st) ==
    IF st.key # NoKey /\ st.words # <<>>
    THEN LET line_text == Strip(JoinSpace(st.words))
         IN  IF line_text # <<>>
             THEN Append(st.items, <<st.top, st.left, line_text>>)
             ELSE st.items
    ELSE st.items

DiscardedAtThreshold(text, conf, min_conf) == text = <<>> \/ conf <= min_conf

\* `if text == "" or conf < min_conf: continue`
Discarded(text, conf, min_conf) == text = <<>> \/ conf < min_conf

\* One iteration of the loop over the tokens.
ScanToken(st, tok, min_conf) ==
    LET text == Strip(TokenText(tok))
        conf == ParseConf(tok.conf)
        key == <<tok.block_num, tok.par_num, tok.line_num>>
    IN  IF Discarded(text, conf, min_conf) THEN st
        ELSE IF key # st.key
             THEN [items |-> Flush(st), key |-> key, words |-> <<text>>,
                   top |-> tok.top, left |-> tok.left]
             ELSE [st EXCEPT !.words = Append(@, text),
                             !.top = Min2(@, tok.top),
                             !.left = Min2(@, tok.left)]

RECURSIVE ScanTokens(_, _, _)
ScanTokens(st, data, min_conf) ==
    IF data = <<>> THEN st
    ELSE ScanTokens(ScanToken(st, Head(data), min_conf), Tail(data), min_conf)

OcrLineKeyTopOnly(t) == <<t[1]>>

\* `key=lambda t: (t[0], t[1])`
OcrLineKey(t) == <<t[1], t[2]>>

\* `items` of ocr_extract_lines_with_positions before its sort, given the
\* engine's answer `data`.
OcrReconstruct(data, min_conf) == Flush(ScanTokens(ScanStart, data, min_conf))

\* ocr_extract_lines_with_positions(pil_img, psm, min_conf), given the
\* engine's answer `data` for that image and mode.
OcrExtractLines(data, min_conf) ==
    LET items == OcrReconstruct(data, min_conf)
    IN  StableSort(items, [i \in 1..Len(items) |-> OcrLineKey(items[i])])

\* ------------------------------------------------------------ the inputs
\* Lines of text blocks: a line with its own box, and a line without one
\* that trims to nothing (its second span has no text).
PlainLine == [spans |-> << [text |-> <<" ", "a">>], [text |-> <<"b", " ">>] >>,
              bbox |-> <<0, 1, 2, 2>>]
BlankLine == [spans |-> << [text |-> <<" ">>], [font |-> "f"] >>]

\* A line with text and no box of its own.
BareLine == [spans |-> << [text |-> <<"c">>] >>]

\* The blocks a decoded page is made of.
TextBlock == [type |-> 0, bbox |-> <<0, 0, 2, 2>>, lines |-> <<BlankLine, PlainLine>>]
TwoLineBlock == [type |-> 0, bbox |-> <<1, 0, 2, 2>>, lines |-> <<PlainLine, BareLine>>]
BlankBlock == [type |-> 0, bbox |-> <<1, 0, 2, 1>>, lines |-> <<BlankLine>>]
ImageBlock7 == [type |-> 1, bbox |-> <<0, 0, 1, 1>>, xref |-> 7]
ImageBlock9 == [type |-> 1, bbox |-> <<0, 1, 1, 2>>, xref |-> 9]
InlineBlock == [type |-> 1, bbox |-> <<1, 0, 2, 1>>]
ZeroBlock == [type |-> 1, bbox |-> <<1, 1, 2, 2>>, xref |-> 0]
NoneBlock == [type |-> 1, bbox |-> <<0, 1, 1, 2>>, xref |-> None]
VectorBlock == [type |-> 3, bbox |-> <<0, 1, 2, 2>>]

PageBlocks ==
    {TextBlock, BlankBlock, ImageBlock7, ImageBlock9, InlineBlock, ZeroBlock, VectorBlock}

Token(text, conf, top, left, line_num) ==
    [text |-> text, conf |-> conf, top |-> top, left |-> left,
     block_num |-> 1, par_num |-> 1, line_num |-> line_num]

\* What the OCR engine may answer: nothing; one word of confidence 57; one
\* word of confidence 90;
\* a line of two words around a blank token, then a token without text.
OcrNothing == <<>>
OcrFaint == << Token(<<"a">>, <<"5", "7">>, 1, 0, 1) >>
OcrWord == << Token(<<"b">>, <<"9", "0">>, 0, 1, 1) >>
OcrLine ==
    << Token(<<"b">>, <<"9", "0">>, 0, 1, 1), Token(<<" ">>, <<"9", "5">>, 0, 2, 1),
       Token(<<"a", " ">>, <<"6", "0">>, 0, 0, 1),
       [conf |-> <<"-", "1">>, top |-> 0, left |-> 0,
        block_num |-> 1, par_num |-> 1, line_num |-> 2] >>

\* `zoom=3.0` of page_image_for_ocr: the picture the engine reads has three
\* pixels for one unit of the page.
OcrZoom == 3

\* The token of a word that stands at (y, x) of the page, in page units: the
\* engine gives its place in pixels of the picture.
PixelToken(text, conf, y, x, line_num) ==
    Token(text, conf, OcrZoom * y, OcrZoom * x, line_num)

\* An image block further down the page than the others.
LowBlock == [type |-> 1, bbox |-> <<0, 2, 1, 3>>, xref |-> 7]

\* Answers for a page with one word: at row 1 of the page, or at column 1 of
\* the top row.
OcrRow1 == << PixelToken(<<"a">>, <<"9", "0">>, 1, 0, 1) >>
OcrColumn1 == << PixelToken(<<"b">>, <<"9", "0">>, 0, 1, 1) >>

\* The engine's answers in single-block mode (psm 6) and in sparse mode
\* (psm 11).
OcrAnswers6 == {OcrFaint, OcrLine}
OcrAnswers11 == {OcrNothing, OcrFaint}

\* The tokens of the enumerated answers.  Of line 1: a word of confidence
\* 60, a word with blanks around it further up and to the right, a word of
\* confidence 54 and a word of no readable confidence, both up and to the
\* left.  Of line 2: a word at the place of the first, words of confidence
\* 59 and 55 at the top left, a blank token, and a token without text.
TokA == Token(<<"a">>, <<"6", "0">>, 1, 0, 1)
TokC == Token(<<" ", "c", " ">>, <<"9", "0">>, 0, 1, 1)
TokF == Token(<<"f">>, <<"5", "4">>, 0, 0, 1)
TokX == Token(<<"x">>, <<"x">>, 0, 0, 1)
TokG == Token(<<"g">>, <<"9", "0">>, 1, 0, 2)
TokD == Token(<<"d">>, <<"5", "9">>, 0, 0, 2)
TokB == Token(<<"b">>, <<"5", "5">>, 0, 0, 2)
TokE == Token(<<" ">>, <<"9", "5">>, 0, 0, 2)
TokN == [conf |-> <<"-", "1">>, top |-> 0, left |-> 0,
         block_num |-> 1, par_num |-> 1, line_num |-> 2]

Tokens == {TokA, TokC, TokF, TokX, TokG, TokD, TokB, TokE, TokN}

\* The answers of at most n tokens.
TokenSeqs(n) == UNION {[1..k -> Tokens] : k \in 0..n}

\* The mode and the threshold of the two call sites.
Passes == {<<6, 60>>, <<11, 55>>}

\* The requests the service handles.
Calls == {1, 2}

\* --------------------------------------------------------------- the state
VARIABLES
    pc,                \* where each call of /extract stands
    page_index,        \* locals of extract_pdf_images_and_text, per call
    image_counter,
    xref_to_filename,
    image_list,
    content_items,
    txt_lines,
    images_dir,        \* the files of each call's session directory
    active_sessions,   \* the sessions /extract has stored
    response,          \* what /extract has answered to each call
    txt_file,          \* the text of each run's slides_with_placeholders.txt
    session_dir,       \* whether each session's directory exists
    served,            \* history: the answers of /image and /cleanup
    rate_limit_store,  \* the request times kept for each client address
    clock,             \* what time() returns
    req,               \* where each rate-limited request stands, and its locals
    answered,          \* history: the rate-limited requests, let through or not
    flattening,        \* what /check-flattening has answered, and for which document
    cur_blocks,        \* history: the blocks of the page being read
    ocr_calls,         \* history: the OCR invocations of the page being read
    pagelog,           \* history: per finished page, what was read and done
    assign,            \* history: the file name given to each non-text block
    writes,            \* history: the files written, in order
    failure            \* history: where a step of each call raised

vars == << pc, page_index, image_counter, xref_to_filename, image_list,
           content_items, txt_lines, images_dir, active_sessions, response,
           txt_file, session_dir, served, rate_limit_store, clock, req, answered,
           flattening, cur_blocks, ocr_calls, pagelog, assign, writes, failure >>

\* The state of the endpoints beside /extract.
endpoints == << served, rate_limit_store, clock, req, answered, flattening >>

locals == << page_index, image_counter, xref_to_filename, image_list,
             content_items, txt_lines >>

history == << cur_blocks, ocr_calls, pagelog, assign, writes, failure >>

EmptyMap == [x \in {} |-> <<>>]

\* A call /extract has not answered yet.
NoResponse == [status |-> 0]

\* The client addresses requests come from.
Identifiers == {"10.0.0.1", "10.0.0.2"}

\* The threads that handle rate-limited requests.
Threads == {1, 2}

\* A thread that handles no request.
NoRequest == [at |-> "idle"]

\* A call no step of which has raised.
NoFailure == [page |-> 0 - 1]

Init ==
    /\ pc = [c \in Calls |-> "idle"]
    /\ page_index = [c \in Calls |-> 0]
    /\ image_counter = [c \in Calls |-> 0]
    /\ xref_to_filename = [c \in Calls |-> EmptyMap]
    /\ image_list = [c \in Calls |-> <<>>]
    /\ content_items = [c \in Calls |-> <<>>]
    /\ txt_lines = [c \in Calls |-> <<>>]
    /\ images_dir = [c \in Calls |-> {}]
    /\ active_sessions = {}
    /\ response = [c \in Calls |-> NoResponse]
    /\ txt_file = [c \in Calls |-> <<>>]
    /\ cur_blocks = [c \in Calls |-> <<>>]
    /\ ocr_calls = [c \in Calls |-> <<>>]
    /\ pagelog = [c \in Calls |-> <<>>]
    /\ assign = [c \in Calls |-> <<>>]
    /\ writes = [c \in Calls |-> <<>>]
    /\ failure = [c \in Calls |-> NoFailure]
    /\ session_dir = [c \in Calls |-> FALSE]
    /\ served = <<>>
    /\ rate_limit_store = [identifier \in Identifiers |-> <<>>]
    /\ clock = 0
    /\ req = [t \in Threads |-> NoRequest]
    /\ answered = <<>>
    /\ flattening = NoResponse

\* ------------------------------------------------- extraction, per block
\* A dict of the module, shared by the calls, instead.
MapOfShared(c) ==
    [x \in UNION {DOMAIN xref_to_filename[d] : d \in Calls} |->
        IF x \in DOMAIN xref_to_filename[c] THEN xref_to_filename[c][x]
        ELSE xref_to_filename[CHOOSE d \in Calls : x \in DOMAIN xref_to_filename[d]][x]]

\* The local dict of the call: `xref_to_filename = {}` is made in the call.
MapOf(c) == xref_to_filename[c]

\* A counter of the module, never reset, instead.
CounterOfShared(c) == image_counter[1] + image_counter[2]

\* The local counter of the call: `image_counter = 0` is made in the call.
CounterOf(c) == image_counter[c]

MemoizedNever(c, xref) == FALSE

\* `xref in xref_to_filename`
Memoized(c, xref) == xref \in DOMAIN MapOf(c)

NextCounterTwice(n) == n + 2

\* `image_counter += 1`
NextCounter(n) == n + 1

\* A handling that appends the name to image_list on a memo hit too, instead.
MaterializeListsHit(c, block) ==
    LET btype == BlockType(block)
        xref == BlockXref(block)
        fresh == NextCounter(CounterOf(c))
    IN  IF btype = 1 /\ Truthy(xref) /\ Memoized(c, xref)
        THEN [img_name |-> MapOf(c)[xref], counter |-> CounterOf(c),
              map |-> MapOf(c), listed |-> <<MapOf(c)[xref]>>, written |-> <<>>]
        ELSE IF btype = 1 /\ Truthy(xref)
        THEN [img_name |-> ImageName(fresh), counter |-> fresh,
              map |-> [x \in DOMAIN MapOf(c) \cup {xref} |->
                          IF x = xref THEN ImageName(fresh) ELSE MapOf(c)[x]],
              listed |-> <<ImageName(fresh)>>,
              written |-> << [name |-> ImageName(fresh), xref |-> xref] >>]
        ELSE [img_name |-> ImageName(fresh), counter |-> fresh,
              map |-> MapOf(c), listed |-> <<ImageName(fresh)>>,
              written |-> << [name |-> ImageName(fresh), xref |-> None] >>]

\* A handling that saves the pixmap before it looks the xref up, instead.
MaterializeSavesHit(c, block) ==
    LET btype == BlockType(block)
        xref == BlockXref(block)
        fresh == NextCounter(CounterOf(c))
    IN  IF btype = 1 /\ Truthy(xref) /\ Memoized(c, xref)
        THEN [img_name |-> MapOf(c)[xref], counter |-> CounterOf(c),
              map |-> MapOf(c), listed |-> <<>>,
              written |-> << [name |-> MapOf(c)[xref], xref |-> xref] >>]
        ELSE IF btype = 1 /\ Truthy(xref)
        THEN [img_name |-> ImageName(fresh), counter |-> fresh,
              map |-> [x \in DOMAIN MapOf(c) \cup {xref} |->
                          IF x = xref THEN ImageName(fresh) ELSE MapOf(c)[x]],
              listed |-> <<ImageName(fresh)>>,
              written |-> << [name |-> ImageName(fresh), xref |-> xref] >>]
        ELSE [img_name |-> ImageName(fresh), counter |-> fresh,
              map |-> MapOf(c), listed |-> <<ImageName(fresh)>>,
              written |-> << [name |-> ImageName(fresh), xref |-> None] >>]

\* What handling one type-1 or other block does: the name it gets, the new
\* counter and dict, the names appended to image_list and the file written
\* (source: the xref of ensure_rgb_pixmap, or None for save_clip_as_png).
Materialize(c, block) ==
    LET btype == BlockType(block)
        xref == BlockXref(block)
        fresh == NextCounter(CounterOf(c))
    IN  IF btype = 1 /\ Truthy(xref) /\ Memoized(c, xref)
        THEN [img_name |-> MapOf(c)[xref], counter |-> CounterOf(c),
              map |-> MapOf(c), listed |-> <<>>, written |-> <<>>]
        ELSE IF btype = 1 /\ Truthy(xref)
        THEN [img_name |-> ImageName(fresh), counter |-> fresh,
              map |-> [x \in DOMAIN MapOf(c) \cup {xref} |->
                          IF x = xref THEN ImageName(fresh) ELSE MapOf(c)[x]],
              listed |-> <<ImageName(fresh)>>,
              written |-> << [name |-> ImageName(fresh), xref |-> xref] >>]
        ELSE [img_name |-> ImageName(fresh), counter |-> fresh,
              map |-> MapOf(c), listed |-> <<ImageName(fresh)>>,
              written |-> << [name |-> ImageName(fresh), xref |-> None] >>]

\* The /extract handler up to the page loop: a new session directory, and
\* the locals of extract_pdf_images_and_text.
ExtractStart(c) ==
    /\ pc[c] = "idle"
    /\ pc' = [pc EXCEPT ![c] = "page"]
    /\ page_index' = [page_index EXCEPT ![c] = 0]
    /\ image_counter' = [image_counter EXCEPT ![c] = 0]
    /\ xref_to_filename' = [xref_to_filename EXCEPT ![c] = EmptyMap]
    /\ image_list' = [image_list EXCEPT ![c] = <<>>]
    /\ txt_lines' = [txt_lines EXCEPT ![c] = <<>>]
    /\ images_dir' = [images_dir EXCEPT ![c] = {}]
    /\ session_dir' = [session_dir EXCEPT ![c] = TRUE]
    /\ UNCHANGED << content_items, active_sessions, response, txt_file, endpoints, history >>

\* A page loop that sets the counter to 0 for every page, instead.
BeginPageResetsCounter(c) ==
    /\ pc[c] = "page"
    /\ pc' = [pc EXCEPT ![c] = "blocks"]
    /\ content_items' = [content_items EXCEPT ![c] = <<>>]
    /\ image_counter' = [image_counter EXCEPT ![c] = 0]
    /\ cur_blocks' = [cur_blocks EXCEPT ![c] = <<>>]
    /\ ocr_calls' = [ocr_calls EXCEPT ![c] = <<>>]
    /\ UNCHANGED << page_index, xref_to_filename, image_list,
                    txt_lines, images_dir, active_sessions, response, txt_file, session_dir, endpoints,
                    pagelog, assign, writes, failure >>

\* The head of the page loop, for a document that has a further page.
BeginPage(c) ==
    /\ pc[c] = "page"
    /\ pc' = [pc EXCEPT ![c] = "blocks"]
    /\ content_items' = [content_items EXCEPT ![c] = <<>>]
    /\ cur_blocks' = [cur_blocks EXCEPT ![c] = <<>>]
    /\ ocr_calls' = [ocr_calls EXCEPT ![c] = <<>>]
    /\ UNCHANGED << page_index, image_counter, xref_to_filename, image_list,
                    txt_lines, images_dir, active_sessions, response, txt_file, session_dir, endpoints,
                    pagelog, assign, writes, failure >>

\* One iteration of `for block in blocks`.  (`if bbox:` of the last branch
\* holds whenever bbox[1] and bbox[0] above it could be read.)
HandleBlock(c, block) ==
    /\ pc[c] = "blocks"
    /\ cur_blocks' = [cur_blocks EXCEPT ![c] = Append(@, block)]
    /\ IF BlockType(block) = 0
       THEN /\ content_items' = [content_items EXCEPT
                   ![c] = @ \o TextItems(BlockLines(block), BlockBBox(block))]
            /\ UNCHANGED << image_counter, xref_to_filename, image_list,
                            images_dir, assign, writes >>
       ELSE LET m == Materialize(c, block)
                bbox == BlockBBox(block)
            IN  /\ content_items' = [content_items EXCEPT
                       ![c] = Append(@, <<bbox[2], bbox[1], "image", m.img_name>>)]
                /\ image_counter' = [image_counter EXCEPT ![c] = m.counter]
                /\ xref_to_filename' = [xref_to_filename EXCEPT ![c] = m.map]
                /\ image_list' = [image_list EXCEPT ![c] = @ \o m.listed]
                /\ images_dir' = [images_dir EXCEPT
                       ![c] = @ \cup {m.written[i].name : i \in 1..Len(m.written)}]
                /\ writes' = [writes EXCEPT ![c] = @ \o m.written]
                /\ assign' = [assign EXCEPT ![c] = Append(@,
                       [page |-> page_index[c], block |-> block,
                        name |-> m.img_name, counter |-> m.counter, map |-> m.map,
                        listed |-> image_list'[c], files |-> images_dir'[c],
                        nwrites |-> Len(writes'[c])])]
    /\ UNCHANGED << pc, page_index, txt_lines, active_sessions, response, txt_file, session_dir, endpoints,
                    ocr_calls, pagelog, failure >>

\* -------------------------------------------------- extraction, per page
NativeTextFoundAnyItem(items) == items # <<>>

\* `any(k == "text" for _, _, k, _ in content_items)`
NativeTextFound(items) == \E i \in 1..Len(items) : items[i][3] = "text"

ContentKeyNoRank(t) == <<t[1], t[2]>>

\* The sort key of the merge.
ContentKey(t) == <<t[1], t[2], IF t[3] = "text" THEN 0 ELSE 1>>

\* A merge that first drops the items it has seen already, instead.
MergeItemsUnique(items) ==
    LET keep == {i \in 1..Len(items) : \A j \in 1..(i - 1) : items[j] # items[i]}
        uniq == [k \in 1..Cardinality(keep) |->
                    items[CHOOSE i \in keep : Cardinality({j \in keep : j <= i}) = k]]
    IN  StableSort(uniq, [i \in 1..Len(uniq) |-> ContentKey(uniq[i])])

\* `content_items.sort(key=...)`
MergeItems(items) == StableSort(items, [i \in 1..Len(items) |-> ContentKey(items[i])])

\* The line written for a content item.
RenderItem(t) == IF t[3] = "text" THEN t[4] ELSE Placeholder(t[4])

\* The header, the items and the blank line of one page.
RenderPage(index, items) ==
    <<SlideHeader(index)>> \o [i \in 1..Len(items) |-> RenderItem(items[i])] \o << <<>> >>

\* A loop that brings the pixels back to page units, instead.
OcrItemsRescaled(ocr_lines) ==
    [i \in 1..Len(ocr_lines) |->
        <<ocr_lines[i][1] \div OcrZoom, ocr_lines[i][2] \div OcrZoom, "text",
          ocr_lines[i][3]>>]

\* `for (ly, lx, line_text) in ocr_lines: content_items.append(...)`
OcrItems(ocr_lines) ==
    [i \in 1..Len(ocr_lines) |->
        <<ocr_lines[i][1], ocr_lines[i][2], "text", ocr_lines[i][3]>>]

\* A page loop that writes nothing and stays at the page it has read, instead.
FinishPageStays(c, items, calls) ==
    /\ content_items' = [content_items EXCEPT ![c] = MergeItems(items)]
    /\ pc' = [pc EXCEPT ![c] = "page"]
    /\ ocr_calls' = [ocr_calls EXCEPT ![c] = calls]
    /\ UNCHANGED << page_index, image_counter, xref_to_filename, image_list, txt_lines,
                    images_dir, active_sessions, response, txt_file, session_dir,
                    endpoints, cur_blocks, pagelog, assign, writes, failure >>

\* The sort and the writing of the page, and the step to the next page.
\* `calls` are the OCR invocations the page made.
FinishPage(c, items, calls) ==
    /\ LET merged == MergeItems(items)
       IN  /\ content_items' = [content_items EXCEPT ![c] = merged]
           /\ txt_lines' = [txt_lines EXCEPT ![c] = @ \o RenderPage(page_index[c], merged)]
           /\ pagelog' = [pagelog EXCEPT ![c] = Append(@,
                  [blocks |-> cur_blocks[c], ocr |-> calls, produced |-> items,
                   merged |-> merged])]
    /\ page_index' = [page_index EXCEPT ![c] = @ + 1]
    /\ pc' = [pc EXCEPT ![c] = "page"]
    /\ ocr_calls' = [ocr_calls EXCEPT ![c] = calls]
    /\ UNCHANGED << image_counter, xref_to_filename, image_list, images_dir,
                    active_sessions, response, txt_file, session_dir, endpoints, cur_blocks, assign, writes, failure >>

\* The end of the blocks of a page that has native text.
NativePage(c) ==
    /\ pc[c] = "blocks"
    /\ NativeTextFound(content_items[c])
    /\ FinishPage(c, content_items[c], <<>>)

\* One invocation of ocr_extract_lines_with_positions, as it is logged.
OcrCall(psm, min_conf, data) ==
    [psm |-> psm, min_conf |-> min_conf, data |-> data,
     items |-> OcrReconstruct(data, min_conf),
     lines |-> OcrExtractLines(data, min_conf)]

\* One invocation of ocr_extract_lines_with_positions by itself, on the
\* answer `data` of the engine.
OcrInvocation(c, psm, min_conf, data) ==
    /\ pc[c] = "idle"
    /\ ocr_calls[c] = <<>>
    /\ ocr_calls' = [ocr_calls EXCEPT ![c] = <<OcrCall(psm, min_conf, data)>>]
    /\ UNCHANGED << pc, locals, images_dir, active_sessions, response, txt_file, session_dir, endpoints,
                    cur_blocks, pagelog, assign, writes, failure >>

NeedsSecondPassAlways(ocr_lines) == TRUE

\* `if not ocr_lines:` after the first pass
NeedsSecondPass(ocr_lines) == ocr_lines = <<>>

\* The first OCR pass (psm 6, threshold 60) of a page without native text;
\* `data` is the engine's answer.
OcrPass1(c, data) ==
    /\ pc[c] = "blocks"
    /\ ~NativeTextFound(content_items[c])
    /\ \E call \in {OcrCall(6, 60, data)} :
           IF NeedsSecondPass(call.lines)
           THEN /\ pc' = [pc EXCEPT ![c] = "ocr2"]
                /\ ocr_calls' = [ocr_calls EXCEPT ![c] = <<call>>]
                /\ UNCHANGED << locals, images_dir, active_sessions, response, txt_file,
                                session_dir, endpoints, cur_blocks, pagelog, assign,
                                writes, failure >>
           ELSE \E items \in {content_items[c] \o OcrItems(call.lines)} :
                    FinishPage(c, items, <<call>>)

\* The second OCR pass (psm 11, threshold 55).
OcrPass2(c, data) ==
    /\ pc[c] = "ocr2"
    /\ \E call \in {OcrCall(11, 55, data)} :
           \E items \in {content_items[c] \o OcrItems(call.lines)} :
               FinishPage(c, items, Append(ocr_calls[c], call))

\* The end of the page loop: the text is returned and /extract stores the
\* session.
Return(c) ==
    /\ pc[c] = "page"
    /\ pc' = [pc EXCEPT ![c] = "done"]
    /\ active_sessions' = active_sessions \cup {c}
    /\ response' = [response EXCEPT ![c] =
           [status |-> 200, txt_content |-> JoinLines(txt_lines[c]),
            image_count |-> Len(image_list[c]), images |-> image_list[c]]]
    /\ txt_file' = [txt_file EXCEPT ![c] = JoinLines(txt_lines[c])]
    /\ UNCHANGED << locals, images_dir, session_dir, endpoints, history >>

\* ---------------------------------------------------- a step that raises
\* A page loop that caught what a page raises and went on to the next page,
\* instead.
AbandonSkipPage(c) ==
    /\ pc' = [pc EXCEPT ![c] = "page"]
    /\ page_index' = [page_index EXCEPT ![c] = @ + 1]
    /\ UNCHANGED << image_counter, xref_to_filename, image_list, content_items,
                    txt_lines, active_sessions, response, txt_file, session_dir, endpoints, cur_blocks, ocr_calls,
                    pagelog, assign, writes >>

\* No statement of the page loop stands in a try: what a step raises leaves
\* extract_pdf_images_and_text before its return, and `except Exception` of
\* /extract answers 500 with the error, before the session is stored.
Abandon(c) ==
    /\ pc' = [pc EXCEPT ![c] = "failed"]
    /\ response' = [response EXCEPT ![c] = [status |-> 500, error |-> "raised"]]
    /\ UNCHANGED << locals, active_sessions, txt_file, session_dir, endpoints, cur_blocks, ocr_calls,
                    pagelog, assign, writes >>

\* The note of a raise: the page, the step, and the sessions stored then.
Raise(c, what) ==
    failure' = [failure EXCEPT ![c] =
        [page |-> page_index[c], what |-> what, sessions |-> active_sessions]]

\* doc[page_index] or page.get_text raises.
FailDecode(c) ==
    /\ pc[c] = "page"
    /\ Raise(c, "decode")
    /\ Abandon(c)
    /\ UNCHANGED images_dir

\* ensure_rgb_pixmap, save_clip_as_png or pix.save raises for a block that
\* is materialized; the file of the block may have been created.
FailBlock(c, block) ==
    /\ pc[c] = "blocks"
    /\ BlockType(block) # 0
    /\ ~(BlockType(block) = 1 /\ Truthy(BlockXref(block)) /\ Memoized(c, BlockXref(block)))
    /\ \E created \in BOOLEAN :
           images_dir' = [images_dir EXCEPT ![c] =
               IF created THEN @ \cup {ImageName(NextCounter(CounterOf(c)))} ELSE @]
    /\ Raise(c, "image")
    /\ Abandon(c)

\* page_image_for_ocr or the first invocation of the engine raises.
FailOcr1(c) ==
    /\ pc[c] = "blocks"
    /\ ~NativeTextFound(content_items[c])
    /\ Raise(c, "ocr")
    /\ Abandon(c)
    /\ UNCHANGED images_dir

\* The second invocation of the engine raises.
FailOcr2(c) ==
    /\ pc[c] = "ocr2"
    /\ Raise(c, "ocr")
    /\ Abandon(c)
    /\ UNCHANGED images_dir

\* ------------------------------------------------- /image and /cleanup
\* What is noted of a request: the endpoint, the session asked for, the
\* answer, the sessions stored before and after it, and whether the
\* directory of the session is there after it.
Served(op, session_id, status, error) ==
    [op |-> op, session |-> session_id, status |-> status, error |-> error,
     before |-> active_sessions, after |-> active_sessions',
     dir |-> session_dir'[session_id]]

\* GET /image/<session_id>/<image_name>
GetImage(session_id, image_name) ==
    /\ UNCHANGED << pc, locals, images_dir, active_sessions, response, txt_file,
                    session_dir, rate_limit_store, clock, req, answered, flattening,
                    history >>
    /\ served' = Append(served,
           IF session_id \notin active_sessions
           THEN Served("image", session_id, 404, "Invalid session ID")
           ELSE IF image_name \notin images_dir[session_id]
           THEN Served("image", session_id, 404, "Image not found")
           ELSE Served("image", session_id, 200, ""))

\* A /cleanup that removes the directory and keeps the session id, instead.
CleanupKeepsId(session_id) ==
    /\ UNCHANGED << pc, locals, active_sessions, response, txt_file, rate_limit_store,
                    clock, req, answered, flattening, history >>
    /\ IF session_id \notin active_sessions
       THEN /\ UNCHANGED << images_dir, session_dir >>
            /\ served' = Append(served, Served("cleanup", session_id, 404, "Invalid session ID"))
       ELSE IF ~session_dir[session_id]
       THEN /\ UNCHANGED << images_dir, session_dir >>
            /\ served' = Append(served, Served("cleanup", session_id, 500, "raised"))
       ELSE /\ session_dir' = [session_dir EXCEPT ![session_id] = FALSE]
            /\ images_dir' = [images_dir EXCEPT ![session_id] = {}]
            /\ served' = Append(served, Served("cleanup", session_id, 200, ""))

\* DELETE /cleanup/<session_id>: shutil.rmtree removes the directory, or
\* raises after it has removed some of its files, and then the id stays.
Cleanup(session_id) ==
    /\ IF session_id \notin active_sessions
       THEN /\ UNCHANGED << images_dir, session_dir, active_sessions >>
            /\ served' = Append(served, Served("cleanup", session_id, 404, "Invalid session ID"))
       ELSE \E removed \in BOOLEAN :
                IF removed
                THEN /\ session_dir' = [session_dir EXCEPT ![session_id] = FALSE]
                     /\ images_dir' = [images_dir EXCEPT ![session_id] = {}]
                     /\ active_sessions' = active_sessions \ {session_id}
                     /\ served' = Append(served, Served("cleanup", session_id, 200, ""))
                ELSE /\ \E left \in SUBSET images_dir[session_id] :
                            images_dir' = [images_dir EXCEPT ![session_id] = left]
                     /\ UNCHANGED << session_dir, active_sessions >>
                     /\ served' = Append(served, Served("cleanup", session_id, 500, "raised"))
    /\ UNCHANGED << pc, locals, response, txt_file, rate_limit_store, clock, req,
                    answered, flattening, history >>

\* ------------------------------------------------------ the rate limiter
\* The limited endpoints followed, and the max_requests each is decorated
\* with; every limited endpoint of the program has the same window.
Endpoints == {"mineru_extract", "prompt_system_guardrails"}

max_requests(endpoint) ==
    IF endpoint = "mineru_extract" THEN LowLimit ELSE HighLimit

\* The list lines 265-268 keep: the times younger than the window.
Pruned(times, current_time) ==
    SelectSeq(times, LAMBDA req_time : current_time - req_time < Window)

\* What is noted of a rate-limited request: who asked for what and when, the
\* answer, and the list of the client before and after it.
Answered(identifier, endpoint, current_time, status, after) ==
    [identifier |-> identifier, endpoint |-> endpoint, time |-> current_time,
     status |-> status, before |-> rate_limit_store[identifier], after |-> after]

\* time() moves on.
Tick ==
    /\ clock < MaxClock
    /\ clock' = clock + 1
    /\ UNCHANGED << pc, locals, images_dir, active_sessions, response, txt_file,
                    session_dir, served, rate_limit_store, req, answered, flattening,
                    history >>

\* A limiter that lets a request through when the list is not longer than
\* max_requests, instead.
RateLimitOver(identifier, endpoint) ==
    /\ Len(answered) < MaxRequests
    /\ \E kept \in {Pruned(rate_limit_store[identifier], clock)} :
           \E after \in {IF Len(kept) > max_requests(endpoint)
                          THEN kept ELSE Append(kept, clock)} :
               /\ rate_limit_store' = [rate_limit_store EXCEPT ![identifier] = after]
               /\ answered' = Append(answered,
                      Answered(identifier, endpoint, clock,
                               IF Len(kept) > max_requests(endpoint) THEN 429 ELSE 200,
                               after))
    /\ UNCHANGED << pc, locals, images_dir, active_sessions, response, txt_file,
                    session_dir, served, clock, req, flattening, history >>

\* decorated_function, for a request that is handled alone: the old times
\* are dropped, the request is refused when max_requests times are left,
\* and its time is added otherwise.
RateLimit(identifier, endpoint) ==
    /\ Len(answered) < MaxRequests
    /\ \E kept \in {Pruned(rate_limit_store[identifier], clock)} :
           \E after \in {IF Len(kept) >= max_requests(endpoint)
                          THEN kept ELSE Append(kept, clock)} :
               /\ rate_limit_store' = [rate_limit_store EXCEPT ![identifier] = after]
               /\ answered' = Append(answered,
                      Answered(identifier, endpoint, clock,
                               IF Len(kept) >= max_requests(endpoint) THEN 429 ELSE 200,
                               after))
    /\ UNCHANGED << pc, locals, images_dir, active_sessions, response, txt_file,
                    session_dir, served, clock, req, flattening, history >>

NextLimiter ==
    \/ Tick
    \/ \E identifier \in Identifiers, endpoint \in Endpoints :
           RateLimit(identifier, endpoint)

SpecLimiter == Init /\ [][NextLimiter]_vars

\* ------------------------------- the rate limiter, two threads at once
\* The threads of the server run decorated_function statement by statement;
\* each keeps identifier and current_time, and the list it has built, to
\* itself, and rate_limit_store is shared.
InFlight == {t \in Threads : req[t].at # "idle"}

ThreadTick ==
    /\ clock < ThreadMaxClock
    /\ clock' = clock + 1
    /\ UNCHANGED << pc, locals, images_dir, active_sessions, response, txt_file,
                    session_dir, served, rate_limit_store, req, answered, flattening,
                    history >>

\* Lines 261-262: identifier = request.remote_addr, current_time = time().
ReadTime(t, identifier, endpoint) ==
    /\ req[t].at = "idle"
    /\ Len(answered) + Cardinality(InFlight) < ThreadMaxRequests
    /\ req' = [req EXCEPT ![t] = [at |-> "prune", identifier |-> identifier,
                                  endpoint |-> endpoint, current_time |-> clock,
                                  kept |-> <<>>]]
    /\ UNCHANGED << pc, locals, images_dir, active_sessions, response, txt_file,
                    session_dir, served, rate_limit_store, clock, answered, flattening,
                    history >>

\* Lines 266-268: the list comprehension reads the list of the client and
\* builds the list of the times to keep.
BuildKept(t) ==
    /\ req[t].at = "prune"
    /\ req' = [req EXCEPT ![t].at = "store",
                          ![t].kept = Pruned(rate_limit_store[req[t].identifier],
                                             req[t].current_time)]
    /\ UNCHANGED << pc, locals, images_dir, active_sessions, response, txt_file,
                    session_dir, served, rate_limit_store, clock, answered, flattening,
                    history >>

\* Line 265: the list that was built replaces the list of the client.
StoreKept(t) ==
    /\ req[t].at = "store"
    /\ rate_limit_store' = [rate_limit_store EXCEPT ![req[t].identifier] = req[t].kept]
    /\ req' = [req EXCEPT ![t].at = "check"]
    /\ UNCHANGED << pc, locals, images_dir, active_sessions, response, txt_file,
                    session_dir, served, clock, answered, flattening, history >>

\* Lines 271-275: the request is refused when max_requests times are stored.
CheckLimit(t) ==
    /\ req[t].at = "check"
    /\ IF Len(rate_limit_store[req[t].identifier]) >= max_requests(req[t].endpoint)
       THEN /\ answered' = Append(answered,
                    Answered(req[t].identifier, req[t].endpoint, req[t].current_time,
                             429, rate_limit_store[req[t].identifier]))
            /\ req' = [req EXCEPT ![t] = NoRequest]
       ELSE /\ req' = [req EXCEPT ![t].at = "append"]
            /\ UNCHANGED answered
    /\ UNCHANGED << pc, locals, images_dir, active_sessions, response, txt_file,
                    session_dir, served, rate_limit_store, clock, flattening, history >>

\* Lines 278-280: the time of the request is added to the stored list, and
\* the request goes on to the endpoint.
AppendTime(t) ==
    /\ req[t].at = "append"
    /\ \E after \in {Append(rate_limit_store[req[t].identifier], req[t].current_time)} :
           /\ answered' = Append(answered,
                  Answered(req[t].identifier, req[t].endpoint, req[t].current_time,
                           200, after))
           /\ rate_limit_store' = [rate_limit_store EXCEPT ![req[t].identifier] = after]
    /\ req' = [req EXCEPT ![t] = NoRequest]
    /\ UNCHANGED << pc, locals, images_dir, active_sessions, response, txt_file,
                    session_dir, served, clock, flattening, history >>

NextThreads ==
    \/ ThreadTick
    \/ \E t \in Threads, identifier \in Identifiers, endpoint \in Endpoints :
           ReadTime(t, identifier, endpoint)
    \/ \E t \in Threads : BuildKept(t)
    \/ \E t \in Threads : StoreKept(t)
    \/ \E t \in Threads : CheckLimit(t)
    \/ \E t \in Threads : AppendTime(t)

SpecThreads == Init /\ [][NextThreads]_vars

\* ----------------------------------------------------- /check-flattening
\* fullpage_threshold, 0.9, as a fraction.
fullpage_threshold == << 9, 10 >>

\* The pages a document is made of: a page of 10 by 10 units or one of no
\* width, with a text block and with image blocks that cover all of the 10
\* by 10 page, nine tenths of it or eight tenths of it.
FlatBoxes == {<< 0, 0, 10, 10 >>, << 0, 0, 10, 9 >>, << 0, 1, 10, 9 >>}
FlatBlocks ==
    {[type |-> 0, bbox |-> << 0, 1, 10, 9 >>]} \cup
    {[type |-> 1, bbox |-> bbox] : bbox \in FlatBoxes}
FlatPages ==
    {[width |-> width, height |-> 10, blocks |-> blocks] :
        width \in {0, 10},
        blocks \in UNION {[1..n -> FlatBlocks] : n \in 0..FlatMaxBlocks}}
FlatDocuments == UNION {[1..n -> FlatPages] : n \in 0..FlatMaxPages}

\* Line 417: (w * h) / page_area, or 0.0 for a page of no area, as a
\* fraction with a positive denominator.
Coverage(b, page_area) ==
    IF page_area # 0
    THEN << (b.bbox[3] - b.bbox[1]) * (b.bbox[4] - b.bbox[2]), page_area >>
    ELSE << 0, 1 >>

\* A test that takes a coverage of exactly fullpage_threshold as below it,
\* instead.
CoverageBelowOrAt(coverage) ==
    coverage[1] * fullpage_threshold[2] <= fullpage_threshold[1] * coverage[2]

\* Line 418: coverage < fullpage_threshold.
CoverageBelow(coverage) ==
    coverage[1] * fullpage_threshold[2] < fullpage_threshold[1] * coverage[2]

\* Lines 415-419: the loop over the image blocks of a page.
RECURSIVE AnyBelow(_, _)
AnyBelow(img_blocks, page_area) ==
    IF img_blocks = <<>> THEN FALSE
    ELSE IF CoverageBelow(Coverage(Head(img_blocks), page_area)) THEN TRUE
    ELSE AnyBelow(Tail(img_blocks), page_area)

RECURSIVE has_true_images(_)
has_true_images(doc) ==
    IF doc = <<>> THEN FALSE
    ELSE IF AnyBelow(SelectSeq(Head(doc).blocks, LAMBDA b : b.type = 1),
                     Head(doc).width * Head(doc).height)
    THEN TRUE
    ELSE has_true_images(Tail(doc))

\* POST /check-flattening with a file that opens as a document.
CheckFlattening(doc) ==
    /\ \E has_images \in {has_true_images(doc)} :
           flattening' = [status |-> 200, doc |-> doc,
                          is_flattened |-> ~has_images,
                          has_true_images |-> has_images,
                          recommendation |-> IF has_images THEN "backend" ELSE "mineru"]
    /\ UNCHANGED << pc, locals, images_dir, active_sessions, response, txt_file,
                    session_dir, served, rate_limit_store, clock, req, answered,
                    history >>

\* POST /check-flattening with a file fitz.open raises on.
CheckFlatteningRaises ==
    /\ flattening' = [status |-> 500]
    /\ UNCHANGED << pc, locals, images_dir, active_sessions, response, txt_file,
                    session_dir, served, rate_limit_store, clock, req, answered,
                    history >>

\* One request is followed.
NextFlattening ==
    \/ flattening = NoResponse /\ \E doc \in FlatDocuments : CheckFlattening(doc)
    \/ flattening = NoResponse /\ CheckFlatteningRaises

SpecFlattening == Init /\ [][NextFlattening]_vars

\* ------------------------------------ mineru_alternative.py, the script
\* The flush of the current line (lines 88-91 and 104-107).
MainFlush(st) ==
    IF st.key # NoKey /\ st.words # <<>>
    THEN IF Strip(JoinSpace(st.words)) # <<>>
         THEN Append(st.items, <<st.top, st.left, Strip(JoinSpace(st.words))>>)
         ELSE st.items
    ELSE st.items

\* One iteration of `for i in range(n)` (lines 74-101).
MainScanToken(st, tok, min_conf) ==
    LET text == Strip(IF "text" \in DOMAIN tok THEN tok.text ELSE <<>>)
        conf == ParseConf(tok.conf)
        key == <<tok.block_num, tok.par_num, tok.line_num>>
    IN  IF text = <<>> \/ conf < min_conf THEN st
        ELSE IF key # st.key
             THEN [items |-> MainFlush(st), key |-> key, words |-> <<text>>,
                   top |-> tok.top, left |-> tok.left]
             ELSE [items |-> st.items, key |-> st.key, words |-> Append(st.words, text),
                   top |-> IF tok.top < st.top THEN tok.top ELSE st.top,
                   left |-> IF tok.left < st.left THEN tok.left ELSE st.left]

RECURSIVE MainScanTokens(_, _, _)
MainScanTokens(st, data, min_conf) ==
    IF data = <<>> THEN st
    ELSE MainScanTokens(MainScanToken(st, Head(data), min_conf), Tail(data), min_conf)

\* ocr_extract_lines_with_positions of the script (lines 57-111).
MainOcrExtractLines(data, min_conf) ==
    LET items == MainFlush(MainScanTokens(ScanStart, data, min_conf))
    IN  StableSort(items, [i \in 1..Len(items) |-> <<items[i][1], items[i][2]>>])

\* The content items of a type-0 block (lines 155-161).
RECURSIVE MainTextItems(_, _)
MainTextItems(lines, bbox) ==
    IF lines = <<>> THEN <<>>
    ELSE LET line == Head(lines)
             spans == IF "spans" \in DOMAIN line THEN line.spans ELSE <<>>
             line_text == Strip(Concat([i \in 1..Len(spans) |->
                              IF "text" \in DOMAIN spans[i] THEN spans[i].text ELSE <<>>]))
             lbbox == IF "bbox" \in DOMAIN line THEN line.bbox ELSE bbox
         IN  (IF line_text # <<>>
              THEN << <<lbbox[2], lbbox[1], "text", line_text>> >>
              ELSE <<>>) \o MainTextItems(Tail(lines), bbox)

\* What handling a block that is no text block does (lines 163-194): the
\* name, the new counter and dict, and the file written.
MainMaterialize(c, block) ==
    LET btype == IF "type" \in DOMAIN block THEN block.type ELSE None
        xref == IF "xref" \in DOMAIN block THEN block.xref ELSE None
        counter == image_counter[c] + 1
        img_name == <<"IMAGE_">> \o Fmt04d(counter) \o <<".png">>
        map == xref_to_filename[c]
    IN  IF btype = 1 /\ xref # None /\ xref # 0
        THEN IF xref \in DOMAIN map
             THEN [img_name |-> map[xref], counter |-> image_counter[c], map |-> map,
                   written |-> <<>>]
             ELSE [img_name |-> img_name, counter |-> counter,
                   map |-> [x \in DOMAIN map \cup {xref} |->
                               IF x = xref THEN img_name ELSE map[x]],
                   written |-> << [name |-> img_name, xref |-> xref] >>]
        ELSE [img_name |-> img_name, counter |-> counter, map |-> map,
              written |-> << [name |-> img_name, xref |-> None] >>]

\* main up to the page loop (lines 115-135): a new output directory, the
\* text file opened for writing, the counter and the dict.
MainStart(c) ==
    /\ pc[c] = "idle"
    /\ pc' = [pc EXCEPT ![c] = "page"]
    /\ page_index' = [page_index EXCEPT ![c] = 0]
    /\ image_counter' = [image_counter EXCEPT ![c] = 0]
    /\ xref_to_filename' = [xref_to_filename EXCEPT ![c] = EmptyMap]
    /\ images_dir' = [images_dir EXCEPT ![c] = {}]
    /\ txt_file' = [txt_file EXCEPT ![c] = <<>>]
    /\ UNCHANGED << image_list, content_items, txt_lines, active_sessions, response,
                    session_dir, endpoints, history >>

\* The head of the page loop (lines 136-147).
MainBeginPage(c) ==
    /\ pc[c] = "page"
    /\ pc' = [pc EXCEPT ![c] = "blocks"]
    /\ content_items' = [content_items EXCEPT ![c] = <<>>]
    /\ cur_blocks' = [cur_blocks EXCEPT ![c] = <<>>]
    /\ ocr_calls' = [ocr_calls EXCEPT ![c] = <<>>]
    /\ UNCHANGED << page_index, image_counter, xref_to_filename, image_list,
                    txt_lines, images_dir, active_sessions, response, txt_file, session_dir, endpoints,
                    pagelog, assign, writes, failure >>

\* One iteration of `for block in blocks` (lines 148-194).
MainHandleBlock(c, block) ==
    /\ pc[c] = "blocks"
    /\ cur_blocks' = [cur_blocks EXCEPT ![c] = Append(@, block)]
    /\ LET bbox == IF "bbox" \in DOMAIN block THEN block.bbox ELSE <<0, 0, 0, 0>>
       IN  IF "type" \in DOMAIN block /\ block.type = 0
           THEN /\ content_items' = [content_items EXCEPT ![c] =
                       @ \o MainTextItems(IF "lines" \in DOMAIN block THEN block.lines
                                          ELSE <<>>, bbox)]
                /\ UNCHANGED << image_counter, xref_to_filename, images_dir,
                                assign, writes >>
           ELSE LET m == MainMaterialize(c, block)
                IN  /\ content_items' = [content_items EXCEPT
                           ![c] = Append(@, <<bbox[2], bbox[1], "image", m.img_name>>)]
                    /\ image_counter' = [image_counter EXCEPT ![c] = m.counter]
                    /\ xref_to_filename' = [xref_to_filename EXCEPT ![c] = m.map]
                    /\ images_dir' = [images_dir EXCEPT
                           ![c] = @ \cup {m.written[i].name : i \in 1..Len(m.written)}]
                    /\ writes' = [writes EXCEPT ![c] = @ \o m.written]
                    /\ assign' = [assign EXCEPT ![c] = Append(@,
                           [page |-> page_index[c], block |-> block,
                            name |-> m.img_name, counter |-> m.counter, map |-> m.map,
                            listed |-> <<>>, files |-> images_dir'[c],
                            nwrites |-> Len(writes'[c])])]
    /\ UNCHANGED << pc, page_index, image_list, txt_lines, active_sessions,
                    response, txt_file, session_dir, endpoints, ocr_calls, pagelog, failure >>

MainContentKeyNoRank(t) == <<t[1], t[2]>>

\* `key=lambda t: (t[0], t[1], 0 if t[2] == "text" else 1)` (line 210)
MainContentKey(t) == <<t[1], t[2], IF t[3] = "text" THEN 0 ELSE 1>>

\* What lines 213-220 write to the text file for one page.
MainWritePage(index, items) ==
    <<"=== Slide ">> \o StrInt(index + 1) \o <<" ===", "\n">>
    \o Concat([i \in 1..Len(items) |->
                  IF items[i][3] = "text" THEN items[i][4] \o <<"\n">>
                  ELSE <<"[">> \o items[i][4] \o <<"]", "\n">>])
    \o <<"\n">>

\* The sort and the writing of the page (lines 210-220).
MainFinishPage(c, items, calls) ==
    /\ LET merged == StableSort(items, [i \in 1..Len(items) |-> MainContentKey(items[i])])
       IN  /\ content_items' = [content_items EXCEPT ![c] = merged]
           /\ txt_file' = [txt_file EXCEPT ![c] = @ \o MainWritePage(page_index[c], merged)]
           /\ pagelog' = [pagelog EXCEPT ![c] = Append(@,
                  [blocks |-> cur_blocks[c], ocr |-> calls, produced |-> items,
                   merged |-> merged])]
    /\ page_index' = [page_index EXCEPT ![c] = @ + 1]
    /\ pc' = [pc EXCEPT ![c] = "page"]
    /\ ocr_calls' = [ocr_calls EXCEPT ![c] = calls]
    /\ UNCHANGED << image_counter, xref_to_filename, image_list, txt_lines,
                    images_dir, active_sessions, response, session_dir, endpoints,
                    cur_blocks, assign, writes, failure >>

\* One invocation of the script's ocr_extract_lines_with_positions.
MainOcrCall(psm, min_conf, data) ==
    [psm |-> psm, min_conf |-> min_conf, data |-> data,
     items |-> MainFlush(MainScanTokens(ScanStart, data, min_conf)),
     lines |-> MainOcrExtractLines(data, min_conf)]

\* `for (ly, lx, line_text) in ocr_lines` (lines 206-207)
MainOcrItems(ocr_lines) ==
    [i \in 1..Len(ocr_lines) |->
        <<ocr_lines[i][1], ocr_lines[i][2], "text", ocr_lines[i][3]>>]

\* A page with native text (lines 197-198, the OCR skipped).
MainNativePage(c) ==
    /\ pc[c] = "blocks"
    /\ \E i \in 1..Len(content_items[c]) : content_items[c][i][3] = "text"
    /\ MainFinishPage(c, content_items[c], <<>>)

\* The first OCR pass (lines 198-203).
MainOcrPass1(c, data) ==
    /\ pc[c] = "blocks"
    /\ ~\E i \in 1..Len(content_items[c]) : content_items[c][i][3] = "text"
    /\ LET call == MainOcrCall(6, 60, data)
       IN  IF call.lines = <<>>
           THEN /\ pc' = [pc EXCEPT ![c] = "ocr2"]
                /\ ocr_calls' = [ocr_calls EXCEPT ![c] = <<call>>]
                /\ UNCHANGED << locals, images_dir, active_sessions, response,
                                txt_file, session_dir, endpoints, cur_blocks, pagelog, assign, writes, failure >>
           ELSE MainFinishPage(c, content_items[c] \o MainOcrItems(call.lines), <<call>>)

\* The second OCR pass (line 204).
MainOcrPass2(c, data) ==
    /\ pc[c] = "ocr2"
    /\ LET call == MainOcrCall(11, 55, data)
       IN  MainFinishPage(c, content_items[c] \o MainOcrItems(call.lines),
                          Append(ocr_calls[c], call))

\* The end of main (lines 222-226).
MainReturn(c) ==
    /\ pc[c] = "page"
    /\ pc' = [pc EXCEPT ![c] = "done"]
    /\ UNCHANGED << locals, images_dir, active_sessions, response, txt_file, session_dir, endpoints, history >>

\* ------------------------------------------------------ one extraction
\* The blocks read so far, over all pages.
RECURSIVE CountBlocks(_)
CountBlocks(pages) ==
    IF pages = <<>> THEN 0 ELSE Len(Head(pages).blocks) + CountBlocks(Tail(pages))

BlocksSeen(c) == CountBlocks(pagelog[c]) + Len(cur_blocks[c])

\* The steps of call c on a document of at most `pages` pages and `blocks`
\* blocks, drawn from `choice`, with the engine answering from `a6`, `a11`.
Step(c, pages, blocks, choice, a6, a11) ==
    \/ ExtractStart(c)
    \/ page_index[c] < pages /\ BeginPage(c)
    \/ BlocksSeen(c) < blocks /\ \E block \in choice : HandleBlock(c, block)
    \/ NativePage(c)
    \/ \E data \in a6 : OcrPass1(c, data)
    \/ \E data \in a11 : OcrPass2(c, data)
    \/ Return(c)

\* One request, for a document of any of the blocks; the engine finds the
\* faint word in sparse mode only.
Next == Step(1, MaxPages, MaxBlocks, PageBlocks, {OcrFaint}, {OcrFaint})

Spec == Init /\ [][Next]_vars

\* One request, for a document of text blocks and an image, with every
\* answer of the engine.
OcrPageBlocks == {TextBlock, BlankBlock, ImageBlock9}

NextOcr == Step(1, MaxPages, MaxBlocks, OcrPageBlocks, OcrAnswers6, OcrAnswers11)

SpecOcr == Init /\ [][NextOcr]_vars

\* Two requests, handled by two threads of the server; their documents use
\* the same xref number.
TwoBlocks == {TextBlock, ImageBlock7, InlineBlock}

NextTwo ==
    \E c \in Calls : Step(c, TwoMaxPages, TwoMaxBlocks, TwoBlocks, {OcrFaint}, {OcrNothing})

SpecTwo == Init /\ [][NextTwo]_vars

\* The steps of call c on the document call d has read: the decoder gives
\* the same blocks and the engine the same answers, pass by pass.
SameDocument(c, d) ==
    \/ pc[d] = "done" /\ ExtractStart(c)
    \/ pc[d] = "done" /\ page_index[c] < Len(pagelog[d]) /\ BeginPage(c)
    \/ /\ pc[d] = "done" /\ pc[c] = "blocks"
       /\ Len(cur_blocks[c]) < Len(pagelog[d][page_index[c] + 1].blocks)
       /\ HandleBlock(c, pagelog[d][page_index[c] + 1].blocks[Len(cur_blocks[c]) + 1])
    \/ /\ pc[d] = "done" /\ pc[c] = "blocks"
       /\ cur_blocks[c] = pagelog[d][page_index[c] + 1].blocks
       /\ NativePage(c)
    \/ /\ pc[d] = "done" /\ pc[c] = "blocks"
       /\ cur_blocks[c] = pagelog[d][page_index[c] + 1].blocks
       /\ Len(pagelog[d][page_index[c] + 1].ocr) >= 1
       /\ OcrPass1(c, pagelog[d][page_index[c] + 1].ocr[1].data)
    \/ /\ pc[d] = "done" /\ pc[c] = "ocr2"
       /\ Len(pagelog[d][page_index[c] + 1].ocr) >= 2
       /\ OcrPass2(c, pagelog[d][page_index[c] + 1].ocr[2].data)
    \/ pc[d] = "done" /\ page_index[c] = Len(pagelog[d]) /\ Return(c)

\* A request, and after it a second request with the same document.
NextRerun ==
    \/ Step(1, TwoMaxPages, TwoMaxBlocks, PageBlocks, OcrAnswers6, OcrAnswers11)
    \/ SameDocument(2, 1)

SpecRerun == Init /\ [][NextRerun]_vars

\* The steps of the script, as run c, on the document request d has read:
\* the decoder gives the same blocks and the engine the same answers.
MainSameDocument(c, d) ==
    \/ pc[d] = "done" /\ MainStart(c)
    \/ pc[d] = "done" /\ page_index[c] < Len(pagelog[d]) /\ MainBeginPage(c)
    \/ /\ pc[d] = "done" /\ pc[c] = "blocks"
       /\ Len(cur_blocks[c]) < Len(pagelog[d][page_index[c] + 1].blocks)
       /\ MainHandleBlock(c, pagelog[d][page_index[c] + 1].blocks[Len(cur_blocks[c]) + 1])
    \/ /\ pc[d] = "done" /\ pc[c] = "blocks"
       /\ cur_blocks[c] = pagelog[d][page_index[c] + 1].blocks
       /\ MainNativePage(c)
    \/ /\ pc[d] = "done" /\ pc[c] = "blocks"
       /\ cur_blocks[c] = pagelog[d][page_index[c] + 1].blocks
       /\ Len(pagelog[d][page_index[c] + 1].ocr) >= 1
       /\ MainOcrPass1(c, pagelog[d][page_index[c] + 1].ocr[1].data)
    \/ /\ pc[d] = "done" /\ pc[c] = "ocr2"
       /\ Len(pagelog[d][page_index[c] + 1].ocr) >= 2
       /\ MainOcrPass2(c, pagelog[d][page_index[c] + 1].ocr[2].data)
    \/ pc[d] = "done" /\ page_index[c] = Len(pagelog[d]) /\ MainReturn(c)

\* A request to the server, and after it a run of the script on the same
\* document.
NextMain ==
    \/ Step(1, TwoMaxPages, TwoMaxBlocks, PageBlocks, OcrAnswers6, OcrAnswers11)
    \/ MainSameDocument(2, 1)

SpecMain == Init /\ [][NextMain]_vars

\* The steps of call c after call d has been answered, on a document of at
\* most `pages` pages and `blocks` blocks drawn from `choice`; any step
\* that reads the document, writes a file or invokes the engine may raise.
StepAfter(c, d, pages, blocks, choice) ==
    \/ pc[d] = "done" /\ ExtractStart(c)
    \/ pc[d] = "done" /\ page_index[c] < pages /\ BeginPage(c)
    \/ pc[d] = "done" /\ BlocksSeen(c) < blocks /\ \E block \in choice : HandleBlock(c, block)
    \/ pc[d] = "done" /\ NativePage(c)
    \/ pc[d] = "done" /\ OcrPass1(c, OcrFaint)
    \/ pc[d] = "done" /\ OcrPass2(c, OcrFaint)
    \/ pc[d] = "done" /\ Return(c)
    \/ pc[d] = "done" /\ page_index[c] < pages /\ FailDecode(c)
    \/ pc[d] = "done" /\ BlocksSeen(c) < blocks /\ \E block \in choice : FailBlock(c, block)
    \/ pc[d] = "done" /\ FailOcr1(c)
    \/ pc[d] = "done" /\ FailOcr2(c)

\* A request that is answered, and after it a request a step of which may
\* raise.
NextFail ==
    \/ Step(1, TwoMaxPages, TwoMaxBlocks, {TextBlock}, {OcrFaint}, {OcrFaint})
    \/ StepAfter(2, 1, MaxPages, MaxBlocks, TwoBlocks)

SpecFail == Init /\ [][NextFail]_vars

\* The steps of call c on the document call d has read: the decoder gives
\* the same blocks and the engine the same answers, and any step that reads
\* the document, writes a file or invokes the engine may raise instead.
SameDocumentOrRaise(c, d) ==
    \/ pc[d] = "done" /\ page_index[c] < Len(pagelog[d]) /\ FailDecode(c)
    \/ /\ pc[d] = "done" /\ pc[c] = "blocks"
       /\ Len(cur_blocks[c]) < Len(pagelog[d][page_index[c] + 1].blocks)
       /\ \E block \in {pagelog[d][page_index[c] + 1].blocks[Len(cur_blocks[c]) + 1]} :
              FailBlock(c, block)
    \/ /\ pc[d] = "done" /\ pc[c] = "blocks"
       /\ cur_blocks[c] = pagelog[d][page_index[c] + 1].blocks
       /\ FailOcr1(c)
    \/ pc[d] = "done" /\ FailOcr2(c)
    \/ pc[d] = "done" /\ ExtractStart(c)
    \/ pc[d] = "done" /\ page_index[c] < Len(pagelog[d]) /\ BeginPage(c)
    \/ /\ pc[d] = "done" /\ pc[c] = "blocks"
       /\ Len(cur_blocks[c]) < Len(pagelog[d][page_index[c] + 1].blocks)
       /\ \E block \in {pagelog[d][page_index[c] + 1].blocks[Len(cur_blocks[c]) + 1]} :
              HandleBlock(c, block)
    \/ /\ pc[d] = "done" /\ pc[c] = "blocks"
       /\ cur_blocks[c] = pagelog[d][page_index[c] + 1].blocks
       /\ NativePage(c)
    \/ /\ pc[d] = "done" /\ pc[c] = "blocks"
       /\ cur_blocks[c] = pagelog[d][page_index[c] + 1].blocks
       /\ Len(pagelog[d][page_index[c] + 1].ocr) >= 1
       /\ \E data \in {pagelog[d][page_index[c] + 1].ocr[1].data} : OcrPass1(c, data)
    \/ /\ pc[d] = "done" /\ pc[c] = "ocr2"
       /\ Len(pagelog[d][page_index[c] + 1].ocr) >= 2
       /\ \E data \in {pagelog[d][page_index[c] + 1].ocr[2].data} : OcrPass2(c, data)
    \/ pc[d] = "done" /\ page_index[c] = Len(pagelog[d]) /\ Return(c)

\* The blocks of the documents of the runs that are followed to their end,
\* and the answers of the engine for them: in single-block mode the faint
\* word or a word of confidence 90, in sparse mode nothing or the faint word.
LivePageBlocks == {TextBlock, ImageBlock7, VectorBlock}
LiveAnswers6 == {OcrFaint, OcrWord}
LiveAnswers11 == {OcrNothing, OcrFaint}

\* A request that fixes a document, and after it a request with that
\* document.  The handler runs in one thread from its first statement to
\* its return, and each primitive it calls returns or raises: a step that
\* can be taken is taken.
NextLive ==
    \/ Step(1, LiveMaxPages, LiveMaxBlocks, LivePageBlocks, LiveAnswers6, LiveAnswers11)
    \/ SameDocumentOrRaise(2, 1)

SpecLive == Init /\ [][NextLive]_vars /\ WF_vars(NextLive)

\* One request, for a document of text blocks of one and of two lines of
\* text, with and without a box of their own, and an image.
TextPageBlocks == {TextBlock, TwoLineBlock, ImageBlock9}

NextText == Step(1, MaxPages, MaxBlocks, TextPageBlocks, {OcrFaint}, {OcrFaint})

SpecText == Init /\ [][NextText]_vars

\* A request to the server, for a document of text, of an image with an
\* xref and of images whose xref is missing, None or 0, and after it a run
\* of the script on the same document.
FalsyBlocks == {TextBlock, ImageBlock7, InlineBlock, NoneBlock, ZeroBlock}

NextFalsy ==
    \/ Step(1, TwoMaxPages, TwoMaxBlocks, FalsyBlocks, OcrAnswers6, OcrAnswers11)
    \/ MainSameDocument(2, 1)

SpecFalsy == Init /\ [][NextFalsy]_vars

\* A request that is answered, a request that fails when it reads its
\* first page, and requests to /image and /cleanup for their sessions, at
\* any time.
SessionBlocks == {TextBlock, ImageBlock7}
SessionImages == {ImageName(1), ImageName(2)}

NextSessions ==
    \/ Step(1, TwoMaxPages, SessionMaxBlocks, SessionBlocks, {OcrFaint}, {OcrFaint})
    \/ ExtractStart(2)
    \/ FailDecode(2)
    \/ /\ Len(served) < MaxServed
       /\ \E session_id \in Calls : \E image_name \in SessionImages :
              GetImage(session_id, image_name)
    \/ /\ Len(served) < MaxServed
       /\ \E session_id \in Calls : Cleanup(session_id)

SpecSessions == Init /\ [][NextSessions]_vars

\* One request, for a document of text, of an image with an xref, of an
\* image whose xref is 0 and of a block that is neither text nor image.
ImagePageBlocks == {TextBlock, ImageBlock7, ZeroBlock, VectorBlock}

NextImages == Step(1, MaxPages, MaxBlocks, ImagePageBlocks, {OcrFaint}, {OcrFaint})

SpecImages == Init /\ [][NextImages]_vars

\* One request, for a document of images and text whose pages without text
\* show one word, found in either mode.
UnitBlocks == {TextBlock, ImageBlock9, LowBlock}
UnitAnswers == {OcrNothing, OcrRow1, OcrColumn1}

NextUnits == Step(1, MaxPages, MaxBlocks, UnitBlocks, UnitAnswers, UnitAnswers)

SpecUnits == Init /\ [][NextUnits]_vars

\* The OCR line reconstruction alone, in either pass, on every answer of at
\* most MaxTokens tokens.
NextLines ==
    /\ ocr_calls[1] = <<>>
    /\ \E data \in TokenSeqs(MaxTokens) : \E pass \in Passes :
           OcrInvocation(1, pass[1], pass[2], data)

SpecLines == Init /\ [][NextLines]_vars

\* ================================================================ claims
\* Readings of the history, for the statements below.
IsImage(a) == BlockType(a.block) = 1 /\ BlockXref(a.block) \notin {None, 0}

IsCrop(a) == ~IsImage(a)

\* The sequence number a file name carries.
SeqNumber(name) == DecimalValue(SubSeq(name, 2, Len(name) - 1))

\* The lines of txt_lines before page p (p counted from 1).
RECURSIVE LinesBefore(_, _)
LinesBefore(log, p) ==
    IF p = 1 THEN 0 ELSE LinesBefore(log, p - 1) + Len(log[p - 1].merged) + 2

Kind(t) == t[3]

\* C1: image blocks of one run that carry the same resource identity get the
\* same file name, and exactly one file is written for that identity, the
\* file of that name.
ImageMemoization ==
    \A i \in 1..Len(assign[1]) :
        IsImage(assign[1][i]) =>
            /\ \A j \in 1..Len(assign[1]) :
                   (IsImage(assign[1][j])
                    /\ BlockXref(assign[1][j].block) = BlockXref(assign[1][i].block))
                   => assign[1][j].name = assign[1][i].name
            /\ Cardinality({k \in 1..Len(writes[1]) :
                   writes[1][k].xref = BlockXref(assign[1][i].block)}) = 1
            /\ \E k \in 1..Len(writes[1]) :
                   /\ writes[1][k].xref = BlockXref(assign[1][i].block)
                   /\ writes[1][k].name = assign[1][i].name

\* A finished run that met one identity on two pages, another block of an
\* image between them.
ImageMemoizationWitness ==
    /\ pc[1] = "done"
    /\ \E i, j, k \in 1..Len(assign[1]) :
           /\ i < j /\ j < k
           /\ assign[1][i].block = ImageBlock7 /\ assign[1][k].block = ImageBlock7
           /\ assign[1][j].block # ImageBlock7
           /\ assign[1][i].page # assign[1][k].page

\* C2: at every point of a run the files written carry the numbers
\* 1..image_counter, one file per number, in the order of the numbers.
SequenceContiguity ==
    /\ Len(writes[1]) = image_counter[1]
    /\ \A k \in 1..Len(writes[1]) : SeqNumber(writes[1][k].name) = k
    /\ {SeqNumber(f) : f \in images_dir[1]} = 1..image_counter[1]
    /\ Cardinality(images_dir[1]) = image_counter[1]

\* A finished run that wrote two files or more and had a memo hit.
SequenceContiguityWitness ==
    /\ pc[1] = "done"
    /\ image_counter[1] >= 2
    /\ Len(assign[1]) > image_counter[1]

\* C3: a block without identity (an image block without xref, a block of
\* another type) gets a name no other block of the run has, a new number
\* each time, and leaves the identity map as it was.
CropsNotMemoized ==
    \A i \in 1..Len(assign[1]) :
        IsCrop(assign[1][i]) =>
            /\ \A j \in 1..Len(assign[1]) : j # i => assign[1][j].name # assign[1][i].name
            /\ assign[1][i].counter = (IF i = 1 THEN 0 ELSE assign[1][i - 1].counter) + 1
            /\ assign[1][i].name = ImageName(assign[1][i].counter)
            /\ assign[1][i].map = (IF i = 1 THEN EmptyMap ELSE assign[1][i - 1].map)
            /\ \A x \in DOMAIN xref_to_filename[1] :
                   x # BlockXref(assign[1][i].block)
                   /\ xref_to_filename[1][x] # assign[1][i].name

\* A finished run with the same identity-less block twice after a memoized
\* image.
CropsNotMemoizedWitness ==
    /\ pc[1] = "done"
    /\ xref_to_filename[1] # EmptyMap
    /\ \E i, j \in 1..Len(assign[1]) :
           i < j /\ IsCrop(assign[1][i]) /\ assign[1][i].block = assign[1][j].block

\* A block list holds native text: a type-0 block with a line that does not
\* trim to nothing.
HasNativeText(blocks) ==
    \E i \in 1..Len(blocks) :
        /\ BlockType(blocks[i]) = 0
        /\ \E k \in 1..Len(BlockLines(blocks[i])) :
               \E n \in 1..Len(LineSpans(BlockLines(blocks[i])[k])) :
                   \E m \in 1..Len(SpanText(LineSpans(BlockLines(blocks[i])[k])[n])) :
                       SpanText(LineSpans(BlockLines(blocks[i])[k])[n])[m] \notin Whitespace

\* C4: OCR runs on a page exactly when the page's blocks hold no native
\* text; a page with native text invokes the engine zero times.
OcrGating ==
    /\ \A p \in 1..Len(pagelog[1]) :
           (pagelog[1][p].ocr # <<>>) <=> ~HasNativeText(pagelog[1][p].blocks)
    /\ pc[1] = "ocr2" => (ocr_calls[1] # <<>> /\ ~HasNativeText(cur_blocks[1]))

\* A finished run with a page of native text and an image (no OCR) and a
\* page whose only text block trims to nothing (OCR).
OcrGatingWitness ==
    /\ pc[1] = "done"
    /\ \E p, q \in 1..Len(pagelog[1]) :
           /\ pagelog[1][p].ocr = <<>>
           /\ \E i \in 1..Len(pagelog[1][p].blocks) : BlockType(pagelog[1][p].blocks[i]) = 1
           /\ pagelog[1][q].ocr # <<>>
           /\ pagelog[1][q].blocks = <<BlankBlock>>

\* The text items of a merged page, in their order.
RECURSIVE TextOf(_)
TextOf(items) ==
    IF items = <<>> THEN <<>>
    ELSE (IF Kind(Head(items)) = "text" THEN <<Head(items)>> ELSE <<>>) \o TextOf(Tail(items))

\* C5: on a page where OCR runs, the first invocation is pass 1 (psm 6,
\* threshold 60); pass 2 (psm 11, threshold 55) follows exactly when pass 1
\* returned no line; there is no third; the page's text is the lines of
\* the last pass.
OcrTwoPass ==
    /\ \A p \in 1..Len(pagelog[1]) :
           LET calls == pagelog[1][p].ocr
           IN  calls # <<>> =>
                   /\ calls[1].psm = 6 /\ calls[1].min_conf = 60
                   /\ Len(calls) <= 2
                   /\ Len(calls) = 2 <=> calls[1].lines = <<>>
                   /\ Len(calls) = 2 => (calls[2].psm = 11 /\ calls[2].min_conf = 55)
                   /\ TextOf(pagelog[1][p].merged) =
                          [i \in 1..Len(calls[Len(calls)].lines) |->
                              << calls[Len(calls)].lines[i][1], calls[Len(calls)].lines[i][2],
                                 "text", calls[Len(calls)].lines[i][3] >>]
    /\ pc[1] = "ocr2" =>
           /\ Len(ocr_calls[1]) = 1
           /\ ocr_calls[1][1].psm = 6 /\ ocr_calls[1][1].lines = <<>>

\* A finished run with a page of one invocation and a page of two, the
\* second of which found the line the first had dropped.
OcrTwoPassWitness ==
    /\ pc[1] = "done"
    /\ \E p, q \in 1..Len(pagelog[1]) :
           /\ Len(pagelog[1][p].ocr) = 1
           /\ Len(pagelog[1][q].ocr) = 2
           /\ pagelog[1][q].ocr[1].data = OcrFaint
           /\ pagelog[1][q].ocr[2].lines # <<>>

\* C6, as the specification states it: every earlier item of a merged page
\* is strictly before every later one.
StrictMergeOrder ==
    \A p \in 1..Len(pagelog[1]) :
        \A i, j \in 1..Len(pagelog[1][p].merged) :
            i < j =>
                LET a == pagelog[1][p].merged[i]
                    b == pagelog[1][p].merged[j]
                IN  \/ a[1] < b[1]
                    \/ a[1] = b[1] /\ a[2] < b[2]
                    \/ a[1] = b[1] /\ a[2] = b[2] /\ Kind(a) = "text" /\ Kind(b) = "image"

\* C6, amended: items at one (top, left) may be of the same kind; an image
\* is never before a text item there.
MergeOrder ==
    \A p \in 1..Len(pagelog[1]) :
        \A i, j \in 1..Len(pagelog[1][p].merged) :
            i < j =>
                LET a == pagelog[1][p].merged[i]
                    b == pagelog[1][p].merged[j]
                IN  \/ a[1] < b[1]
                    \/ a[1] = b[1] /\ a[2] < b[2]
                    \/ a[1] = b[1] /\ a[2] = b[2] /\ ~(Kind(a) = "image" /\ Kind(b) = "text")

\* A page whose image block came before the text block of the same
\* (top, left), merged with the text first, and an image twice at one place.
MergeOrderWitness ==
    \E p \in 1..Len(pagelog[1]) :
        /\ pagelog[1][p].blocks = <<ImageBlock9, TextBlock, ImageBlock9>>
        /\ Kind(pagelog[1][p].merged[1]) = "text"
        /\ Kind(pagelog[1][p].merged[2]) = "image"
        /\ pagelog[1][p].merged[2] = pagelog[1][p].merged[3]

\* C7: no line between a page's header and its blank separator is empty
\* or blank; an OCR invocation returns no empty line, and returns a line
\* only if a token survived the filter.
NoEmptyLines ==
    /\ \A p \in 1..Len(pagelog[1]) :
           /\ \A k \in 1..Len(pagelog[1][p].merged) :
                  /\ \E m \in 1..Len(txt_lines[1][LinesBefore(pagelog[1], p) + 1 + k]) :
                         txt_lines[1][LinesBefore(pagelog[1], p) + 1 + k][m] \notin Whitespace
                  /\ pagelog[1][p].merged[k][4] # <<>>
           /\ \A n \in 1..Len(pagelog[1][p].ocr) :
                  LET call == pagelog[1][p].ocr[n]
                  IN  /\ \A i \in 1..Len(call.lines) :
                             \E m \in 1..Len(call.lines[i][3]) :
                                 call.lines[i][3][m] \notin Whitespace
                      /\ call.lines # <<>> =>
                             \E t \in 1..Len(call.data) :
                                 /\ "text" \in DOMAIN call.data[t]
                                 /\ \E m \in 1..Len(call.data[t].text) :
                                        call.data[t].text[m] \notin Whitespace
                                 /\ ParseConf(call.data[t].conf) >= call.min_conf
    /\ \A k \in 1..Len(content_items[1]) : content_items[1][k][4] # <<>>

\* A finished run with a page that read a blank native line beside a kept
\* one, and a page whose OCR answer held a blank token.
NoEmptyLinesWitness ==
    /\ pc[1] = "done"
    /\ \E p, q \in 1..Len(pagelog[1]) :
           /\ pagelog[1][p].blocks = <<BlankBlock, TextBlock>>
           /\ Len(pagelog[1][p].merged) = 1
           /\ Len(pagelog[1][q].ocr) = 1 /\ pagelog[1][q].ocr[1].data = OcrLine

\* C9: the text is, page after page, the header of the page (numbered from
\* 1), one line per merged item and an empty line; a finished run has as
\* many headers as the document has pages.
OutputStructure ==
    /\ Len(txt_lines[1]) = LinesBefore(pagelog[1], Len(pagelog[1]) + 1)
    /\ page_index[1] = Len(pagelog[1])
    /\ \A p \in 1..Len(pagelog[1]) :
           LET at == LinesBefore(pagelog[1], p)
               items == pagelog[1][p].merged
           IN  /\ txt_lines[1][at + 1] = <<"=== Slide ", DigitChar[p + 1], " ===">>
               /\ \A k \in 1..Len(items) :
                      txt_lines[1][at + 1 + k] =
                          IF Kind(items[k]) = "text" THEN items[k][4]
                          ELSE <<"[">> \o items[k][4] \o <<"]">>
               /\ txt_lines[1][at + Len(items) + 2] = <<>>
    /\ Cardinality({k \in 1..Len(txt_lines[1]) :
                       txt_lines[1][k] # <<>> /\ txt_lines[1][k][1] = "=== Slide "})
           = Len(pagelog[1])

\* A finished run of two pages, the first with no block and no OCR line, the
\* second with an image and a text line.
OutputStructureWitness ==
    /\ pc[1] = "done"
    /\ Len(pagelog[1]) = 2
    /\ pagelog[1][1].blocks = <<>> /\ pagelog[1][1].merged = <<>>
    /\ Len(pagelog[1][1].ocr) = 2
    /\ txt_lines[1][1] = <<"=== Slide ", "1", " ===">>
    /\ txt_lines[1][2] = <<>>
    /\ txt_lines[1][3] = <<"=== Slide ", "2", " ===">>
    /\ Len(txt_lines[1]) = 6

\* What a run has read: per page, the blocks and the engine's answers.
Inputs(c) ==
    [p \in 1..Len(pagelog[c]) |->
        [blocks |-> pagelog[c][p].blocks,
         ocr |-> [n \in 1..Len(pagelog[c][p].ocr) |-> pagelog[c][p].ocr[n].data]]]

\* The file name of each non-text block of a run, in the order of the blocks.
Names(c) == [i \in 1..Len(assign[c]) |-> <<assign[c][i].page, assign[c][i].block, assign[c][i].name>>]

PerDocumentIsolation ==
    \A c \in Calls :
        /\ Len(writes[c]) = image_counter[c]
        /\ \A k \in 1..Len(writes[c]) : SeqNumber(writes[c][k].name) = k
        /\ images_dir[c] = {writes[c][k].name : k \in 1..Len(writes[c])}
        /\ DOMAIN xref_to_filename[c] =
               {BlockXref(assign[c][i].block) : i \in {j \in 1..Len(assign[c]) : IsImage(assign[c][j])}}
        /\ \A i \in 1..Len(assign[c]) :
               /\ assign[c][i].name \in images_dir[c]
               /\ IsImage(assign[c][i]) =>
                      \E k \in 1..Len(writes[c]) :
                          /\ writes[c][k].xref = BlockXref(assign[c][i].block)
                          /\ writes[c][k].name = assign[c][i].name

\* Both requests in the middle of a page, both having met identity 7, the
\* first after a cropped block.
PerDocumentIsolationWitness ==
    /\ pc[1] = "blocks" /\ pc[2] = "blocks"
    /\ 7 \in DOMAIN xref_to_filename[1] /\ 7 \in DOMAIN xref_to_filename[2]
    /\ xref_to_filename[1][7] = ImageName(2)
    /\ xref_to_filename[2][7] = ImageName(1)

\* C11: once a step of a call has raised on page p (decoding the page,
\* materializing a block, an OCR invocation), the call is abandoned: its
\* answer is the error with no text in it, though pages before p had been
\* written; no page from p on is finished; the call's session is not stored
\* and the stored sessions are those stored before.
FatalFailure ==
    \A c \in Calls :
        failure[c].page # NoFailure.page =>
            /\ pc[c] = "failed"
            /\ response[c].status = 500
            /\ "txt_content" \notin DOMAIN response[c]
            /\ page_index[c] = failure[c].page
            /\ Len(pagelog[c]) = failure[c].page
            /\ c \notin active_sessions
            /\ active_sessions = failure[c].sessions

\* After a stored session, a call whose second OCR invocation raised on its
\* second page, the first page having been written with an image file.
FatalFailureWitness ==
    /\ active_sessions = {1}
    /\ failure[2].page = 1 /\ failure[2].what = "ocr"
    /\ Len(ocr_calls[2]) = 1
    /\ Len(txt_lines[2]) >= 3
    /\ images_dir[2] # {}

\* The image items of a page's content items, in their order.
RECURSIVE ImagesOf(_)
ImagesOf(items) ==
    IF items = <<>> THEN <<>>
    ELSE (IF Kind(Head(items)) = "image" THEN <<Head(items)>> ELSE <<>>) \o ImagesOf(Tail(items))

\* The records of the non-text blocks of page p (counted from 0) of a run.
PageAssign(c, p) == SelectSeq(assign[c], LAMBDA a : a.page = p)

\* C12: handling an image block whose identity is a key of the map leaves
\* the counter, the map, the files of the directory, the number of writes
\* and image_list as the block before left them, and names the block by the
\* map; on the page, every non-text block handled so far, a memo hit too,
\* has exactly one image item, at the block's place and with its name.
MemoHitFrame ==
    /\ \A i \in 2..Len(assign[1]) :
           LET a == assign[1][i]
               b == assign[1][i - 1]
           IN  (BlockType(a.block) = 1 /\ BlockXref(a.block) \in DOMAIN b.map) =>
                   /\ a.counter = b.counter
                   /\ a.map = b.map
                   /\ a.files = b.files
                   /\ a.nwrites = b.nwrites
                   /\ a.listed = b.listed
                   /\ a.name = b.map[BlockXref(a.block)]
    /\ pc[1] = "blocks" =>
           LET here == PageAssign(1, page_index[1])
           IN  ImagesOf(content_items[1]) =
                   [i \in 1..Len(here) |->
                       << BlockBBox(here[i].block)[2], BlockBBox(here[i].block)[1],
                          "image", here[i].name >>]

\* A page being read whose last block is a memo hit of an image that the
\* page before materialized, a cropped block having been numbered between.
MemoHitFrameWitness ==
    /\ pc[1] = "blocks"
    /\ Len(assign[1]) = 3
    /\ assign[1][1].block = ImageBlock9 /\ assign[1][3].block = ImageBlock9
    /\ assign[1][2].block = VectorBlock
    /\ assign[1][1].page = 0 /\ assign[1][3].page = 1
    /\ cur_blocks[1] = <<ImageBlock9>>
    /\ image_list[1] = <<ImageName(1), ImageName(2)>>

\* How many times x stands in s.
Count(s, x) == Cardinality({i \in 1..Len(s) : s[i] = x})

\* 0 for a text item, 1 for an image item.
Rank(t) == IF Kind(t) = "text" THEN 0 ELSE 1

\* a is not after b under (top, left, rank).
KeyLeq(a, b) ==
    \/ a[1] < b[1]
    \/ a[1] = b[1] /\ a[2] < b[2]
    \/ a[1] = b[1] /\ a[2] = b[2] /\ Rank(a) <= Rank(b)

\* The items of s that have the key of x, in their order.
WithKeyOf(s, x) ==
    SelectSeq(s, LAMBDA t : t[1] = x[1] /\ t[2] = x[2] /\ Rank(t) = Rank(x))

\* The lines of a block list's text blocks that do not trim to nothing.
NativeLines(blocks) ==
    {q \in UNION {{<<i, k>> : k \in 1..Len(BlockLines(blocks[i]))} : i \in 1..Len(blocks)} :
      LET i == q[1]
          k == q[2]
      IN
        /\ BlockType(blocks[i]) = 0
        /\ \E n \in 1..Len(LineSpans(BlockLines(blocks[i])[k])) :
               \E m \in 1..Len(SpanText(LineSpans(BlockLines(blocks[i])[k])[n])) :
                   SpanText(LineSpans(BlockLines(blocks[i])[k])[n])[m] \notin Whitespace}

\* C13: the merged items of every page are the items the page produced,
\* each as many times as it was produced (one per native line with text,
\* one per non-text block, one per line of the last OCR pass), in
\* non-decreasing order of (top, left, rank), items of one key in the order
\* of their production.
MergerPermutation ==
    \A p \in 1..Len(pagelog[1]) :
        LET m == pagelog[1][p].merged
            q == pagelog[1][p].produced
            calls == pagelog[1][p].ocr
            blocks == pagelog[1][p].blocks
        IN  /\ Len(m) = Len(q)
            /\ \A i \in 1..Len(q) : Count(m, q[i]) = Count(q, q[i])
            /\ \A i, j \in 1..Len(m) : i < j => KeyLeq(m[i], m[j])
            /\ \A i \in 1..Len(m) : WithKeyOf(m, m[i]) = WithKeyOf(q, m[i])
            /\ Len(ImagesOf(q)) =
                   Cardinality({i \in 1..Len(blocks) : BlockType(blocks[i]) # 0})
            /\ Len(TextOf(q)) =
                   Cardinality(NativeLines(blocks))
                   + (IF calls = <<>> THEN 0 ELSE Len(calls[Len(calls)].lines))

\* A page that produced, at one (top, left), a cropped block, an image
\* twice and then an OCR line, merged with the line first and the three
\* references in the order of their blocks.
MergerPermutationWitness ==
    \E p \in 1..Len(pagelog[1]) :
        /\ pagelog[1][p].blocks = <<VectorBlock, ImageBlock9, ImageBlock9>>
        /\ Len(pagelog[1][p].merged) = 4
        /\ pagelog[1][p].merged[1] = pagelog[1][p].produced[4]
        /\ Kind(pagelog[1][p].merged[1]) = "text"
        /\ pagelog[1][p].merged[2][4] = ImageName(1)
        /\ pagelog[1][p].merged[3] = pagelog[1][p].merged[4]
        /\ pagelog[1][p].merged[3][4] = ImageName(2)

\* Readings of one OCR invocation, for the statements below.
\* A confidence that reads as a number.
Parses(conf) ==
    \/ IsDecimal(conf)
    \/ conf # <<>> /\ Head(conf) = "-" /\ IsDecimal(Tail(conf))

\* A token that is not to be discarded at the threshold.
Survives(tok, min_conf) ==
    /\ "text" \in DOMAIN tok
    /\ \E m \in 1..Len(tok.text) : tok.text[m] \notin Whitespace
    /\ Parses(tok.conf)
    /\ ParseConf(tok.conf) >= min_conf

SurvivorsOf(call) == {i \in 1..Len(call.data) : Survives(call.data[i], call.min_conf)}

Triple(tok) == <<tok.block_num, tok.par_num, tok.line_num>>

\* The words of a text: what lies between its single spaces.
RECURSIVE Split(_)
Split(text) ==
    IF text = <<>> THEN << <<>> >>
    ELSE LET rest == Split(Tail(text))
         IN  IF Head(text) = " " THEN << <<>> >> \o rest
             ELSE << <<Head(text)>> \o Head(rest) >> \o Tail(rest)

\* The words of all the lines of a list, in their order.
RECURSIVE AllWords(_)
AllWords(lines) ==
    IF lines = <<>> THEN <<>> ELSE Split(Head(lines)[3]) \o AllWords(Tail(lines))

\* C14, as the specification states it: an invocation returns as many lines
\* as there are distinct (block, paragraph, line) triples among the tokens
\* that survive, wherever in the answer the tokens of a triple stand.
OcrGroupsByTriple ==
    \A n \in 1..Len(ocr_calls[1]) :
        LET call == ocr_calls[1][n]
        IN  Len(call.lines) =
                Cardinality({Triple(call.data[i]) : i \in SurvivorsOf(call)})

\* The trimmed texts a token of the enumerated answers can have.
TokenWords == {Strip(TokenText(tok)) : tok \in Tokens}

\* C15: a token is discarded exactly when its text trims to nothing or its
\* confidence is below the threshold or no number (at the threshold it is
\* kept): the words of the lines returned are the trimmed texts of the
\* surviving tokens, each as often as it survives; and the lines are those
\* of the answer with the discarded tokens left out, so that a discarded
\* token gives no word and no position and splits no line.
OcrTokenFilter ==
    \A n \in 1..Len(ocr_calls[1]) :
        LET call == ocr_calls[1][n]
            words == AllWords(call.lines)
            kept == SelectSeq(call.data, LAMBDA tok : Survives(tok, call.min_conf))
        IN  /\ Len(words) = Cardinality(SurvivorsOf(call))
            /\ \A w \in TokenWords :
                   Count(words, w) =
                       Cardinality({i \in SurvivorsOf(call) :
                                       Strip(TokenText(call.data[i])) = w})
            /\ call.lines = OcrExtractLines(kept, call.min_conf)
            /\ (call.psm = 6 => call.min_conf = 60) /\ (call.psm = 11 => call.min_conf = 55)

\* The first pass on a word of confidence 60, a word of confidence 59 of
\* another line further up and to the left, and the first word again: one
\* line of the two words, at the place of the word.
OcrTokenFilterWitness ==
    /\ ocr_calls[1] # <<>>
    /\ ocr_calls[1][1].psm = 6
    /\ ocr_calls[1][1].data = <<TokA, TokD, TokA>>
    /\ ocr_calls[1][1].lines = << <<1, 0, <<"a", " ", "a">>>> >>

\* C16: the tokens that survive can be allotted to the lines returned so
\* that every line has a token, the tokens of a line are of one triple, the
\* line's text is their trimmed texts in the order of the answer with one
\* space between two, its top the least of their tops and its left the
\* least of their lefts.
OcrLineContent ==
    \A n \in 1..Len(ocr_calls[1]) :
        LET call == ocr_calls[1][n]
            surv == SurvivorsOf(call)
        IN  \E member \in [surv -> 1..Len(call.lines)] :
                \A l \in 1..Len(call.lines) :
                    LET mem == {i \in surv : member[i] = l}
                        toks == SelectSeq([i \in 1..Len(call.data) |->
                                              IF i \in mem THEN call.data[i] ELSE <<>>],
                                          LAMBDA t : t # <<>>)
                    IN  /\ mem # {}
                        /\ \A i, j \in mem : Triple(call.data[i]) = Triple(call.data[j])
                        /\ Split(call.lines[l][3]) =
                               [k \in 1..Len(toks) |-> Strip(TokenText(toks[k]))]
                        /\ \A i \in mem : call.lines[l][1] <= call.data[i].top
                        /\ \E i \in mem : call.lines[l][1] = call.data[i].top
                        /\ \A i \in mem : call.lines[l][2] <= call.data[i].left
                        /\ \E i \in mem : call.lines[l][2] = call.data[i].left

\* The first pass on a word of line 2 and two words of line 1, the one
\* lower and to the left of the other: the line of the two, with the top
\* of the second and the left of the first, and the line of the one.
OcrLineContentWitness ==
    /\ ocr_calls[1] # <<>>
    /\ ocr_calls[1][1].min_conf = 60
    /\ ocr_calls[1][1].data = <<TokG, TokA, TokC>>
    /\ ocr_calls[1][1].lines = << <<0, 0, <<"a", " ", "c">>>>, <<1, 0, <<"g">>>> >>

\* The lines of s at the place of x, in their order.
AtPlaceOf(s, x) == SelectSeq(s, LAMBDA t : t[1] = x[1] /\ t[2] = x[2])

\* C17: the list an invocation returns holds the reconstructed lines, each
\* as often as it was reconstructed, in non-decreasing order of (top,
\* left), lines of one (top, left) in the order of their reconstruction.
OcrResultOrder ==
    \A n \in 1..Len(ocr_calls[1]) :
        LET call == ocr_calls[1][n]
        IN  /\ Len(call.lines) = Len(call.items)
            /\ \A i \in 1..Len(call.items) :
                   Count(call.lines, call.items[i]) = Count(call.items, call.items[i])
            /\ \A i, j \in 1..Len(call.lines) :
                   i < j =>
                       \/ call.lines[i][1] < call.lines[j][1]
                       \/ /\ call.lines[i][1] = call.lines[j][1]
                          /\ call.lines[i][2] <= call.lines[j][2]
            /\ \A i \in 1..Len(call.lines) :
                   AtPlaceOf(call.lines, call.lines[i]) = AtPlaceOf(call.items, call.lines[i])

\* The second pass on two lines of one place and then a line at the top
\* left: the last comes first, the two keep their order.
OcrResultOrderWitness ==
    /\ ocr_calls[1] # <<>>
    /\ ocr_calls[1][1].psm = 11
    /\ ocr_calls[1][1].items = << <<1, 0, <<"g">>>>, <<1, 0, <<"a">>>>, <<0, 0, <<"b">>>> >>
    /\ ocr_calls[1][1].lines = << <<0, 0, <<"b">>>>, <<1, 0, <<"g">>>>, <<1, 0, <<"a">>>> >>

\* The characters of a line's spans, one after the other.
Flat(line) ==
    LET spans == IF "spans" \in DOMAIN line THEN line.spans ELSE <<>>
    IN  Concat([n \in 1..Len(spans) |->
                   IF "text" \in DOMAIN spans[n] THEN spans[n].text ELSE <<>>])

\* text is full without the whitespace at its two ends.
Trims(full, text) ==
    /\ text # <<>>
    /\ text[1] \notin Whitespace /\ text[Len(text)] \notin Whitespace
    /\ \E a \in 1..Len(full) :
           /\ a + Len(text) - 1 <= Len(full)
           /\ SubSeq(full, a, a + Len(text) - 1) = text
           /\ \A m \in 1..Len(full) :
                  (m < a \/ m > a + Len(text) - 1) => full[m] \in Whitespace

\* C18: the text items a page's blocks give are, in the order of the blocks
\* and of their lines, one for every line of a type-0 block that does not
\* trim to nothing: its text the line's spans put together and trimmed,
\* its place the top and left of the line's box, or of the block's box when
\* the line has none.
TextBlockItems ==
    \A p \in 1..Len(pagelog[1]) :
        LET blocks == pagelog[1][p].blocks
            native == NativeLines(blocks)
            items == TextOf(pagelog[1][p].produced)
        IN  native # {} =>
                /\ Len(items) = Cardinality(native)
                /\ \A q \in native :
                       LET r == Cardinality({o \in native :
                                   o[1] < q[1] \/ (o[1] = q[1] /\ o[2] <= q[2])})
                           block == blocks[q[1]]
                           line == block.lines[q[2]]
                           box == IF "bbox" \in DOMAIN line THEN line.bbox ELSE block.bbox
                       IN  /\ items[r][1] = box[2]
                           /\ items[r][2] = box[1]
                           /\ Trims(Flat(line), items[r][4])

\* A page of a block with a line that has a box and a line that has none:
\* two items, the second at the place of the block, which the merge puts
\* first.
TextBlockItemsWitness ==
    \E p \in 1..Len(pagelog[1]) :
        /\ pagelog[1][p].blocks = <<TextBlock, TwoLineBlock>>
        /\ pagelog[1][p].produced =
               << <<1, 0, "text", <<"a", "b">>>>, <<1, 0, "text", <<"a", "b">>>>,
                  <<0, 1, "text", <<"c">>>> >>
        /\ pagelog[1][p].merged[1] = <<0, 1, "text", <<"c">>>>

\* The non-text blocks of a run, by their place in the order of the run,
\* that were given a name no block before them had.
FirstNamed(c) ==
    {i \in 1..Len(assign[c]) : \A j \in 1..(i - 1) : assign[c][j].name # assign[c][i].name}

\* C19: the non-text blocks of a run are met page after page; of two blocks
\* that each got a new name, the one met first has the smaller number,
\* whatever the places of the two on their pages; and the counter after a
\* block is never below the counter after a block met before it, nor the
\* counter of the state below the counter after any block.
AllocationOrder ==
    /\ \A i, j \in 1..Len(assign[1]) :
           i < j =>
               /\ assign[1][i].page <= assign[1][j].page
               /\ assign[1][i].counter <= assign[1][j].counter
    /\ \A i, j \in FirstNamed(1) :
           i < j => SeqNumber(assign[1][i].name) < SeqNumber(assign[1][j].name)
    /\ \A i \in 1..Len(assign[1]) : assign[1][i].counter <= image_counter[1]

\* A finished run whose first page gave number 1 to the lower of two
\* images, so that the merged page names number 2 first, and whose second
\* page gave number 3.
AllocationOrderWitness ==
    /\ pc[1] = "done"
    /\ Len(pagelog[1]) = 2
    /\ pagelog[1][1].blocks = <<ImageBlock9, ImageBlock7>>
    /\ pagelog[1][1].merged[1][4] = ImageName(2)
    /\ pagelog[1][1].merged[Len(pagelog[1][1].merged)][4] = ImageName(1)
    /\ Len(assign[1]) = 3
    /\ assign[1][3].page = 1 /\ assign[1][3].name = ImageName(3)

\* The lines of a text in which every line is ended by a line break.
RECURSIVE TerminatedLines(_)
TerminatedLines(text) ==
    IF text = <<>> THEN <<>>
    ELSE LET breaks == {k \in 1..Len(text) : text[k] = "\n"}
             k == IF breaks = {} THEN Len(text) + 1
                  ELSE CHOOSE b \in breaks : \A o \in breaks : b <= o
         IN  <<SubSeq(text, 1, k - 1)>> \o TerminatedLines(SubSeq(text, k + 1, Len(text)))

\* C20: a finished request to the server and a finished run of the script
\* that read the same blocks and got the same OCR answers have the same
\* lines (the lines the script ended by a line break each are the lines the
\* server joined, so that the script's text is the server's and one line
\* break more), the same file name for every block, and the same files
\* written from the same sources in the same order.
EntryPointsEquivalent ==
    (pc[1] = "done" /\ pc[2] = "done" /\ Inputs(1) = Inputs(2)) =>
        /\ TerminatedLines(txt_file[2]) = txt_lines[1]
        /\ txt_file[2] = (IF txt_lines[1] = <<>> THEN txt_file[1]
                          ELSE txt_file[1] \o <<"\n">>)
        /\ Names(1) = Names(2)
        /\ Len(writes[1]) = Len(writes[2])
        /\ \A k \in 1..Len(writes[1]) : writes[1][k] = writes[2][k]
        /\ images_dir[1] = images_dir[2]

\* Both finished on a page whose image block came before a text block of
\* the same place: both put the text first and wrote the one image file.
EntryPointsEquivalentWitness ==
    /\ pc[1] = "done" /\ pc[2] = "done"
    /\ Len(pagelog[2]) = 1
    /\ pagelog[2][1].blocks = <<ImageBlock9, TextBlock>>
    /\ pagelog[2][1].merged = << <<1, 0, "text", <<"a", "b">>>>, <<1, 0, "image", ImageName(1)>> >>
    /\ images_dir[2] = {ImageName(1)}
    /\ Len(txt_file[2]) > Len(txt_file[1])

\* The pages call c has finished are the first pages of the document call d
\* has read, one entry for each, in the order of the document.
PagesInOrder(c, d) ==
    /\ page_index[c] = Len(pagelog[c])
    /\ Len(pagelog[c]) <= Len(pagelog[d])
    /\ \A p \in 1..Len(pagelog[c]) : pagelog[c][p].blocks = pagelog[d][p].blocks

\* The headers of the text of call c: one for each page, in order.
Headers(c) == SelectSeq(txt_lines[c], LAMBDA l : Len(l) > 0 /\ l[1] = "=== Slide ")

\* What holds at every step of a run of call c on the document of call d.
RunInOrder(c, d) ==
    /\ pc[d] = "done" => PagesInOrder(c, d)
    /\ Len(ocr_calls[c]) <= 2
    /\ \A p \in 1..Len(pagelog[c]) : Len(pagelog[c][p].ocr) <= 2
    /\ Headers(c) = [p \in 1..Len(pagelog[c]) |-> SlideHeader(p - 1)]
    /\ (pc[d] = "done" /\ pc[c] = "done") =>
           /\ Len(pagelog[c]) = Len(pagelog[d])
           /\ response[c].status = 200
           /\ response[c].txt_content = JoinLines(txt_lines[c])
           /\ failure[c] = NoFailure
    /\ pc[c] = "failed" =>
           /\ response[c].status = 500
           /\ failure[c] # NoFailure

\* C21: the extraction of a document of finitely many pages and blocks ends:
\* it returns the text after it has read every page once, in order, or it
\* is abandoned with the failure of a step; no page has more than two OCR
\* invocations.
Termination ==
    /\ [](RunInOrder(1, 1) /\ RunInOrder(2, 1))
    /\ <>(pc[1] = "done")
    /\ <>(pc[2] \in {"done", "failed"})

\* A run that has read two pages, the first with two OCR invocations, and
\* returned, and a run on the same document abandoned at its second page.
TerminationWitness ==
    /\ pc[1] = "done" /\ Len(pagelog[1]) = 2
    /\ Len(pagelog[1][1].ocr) = 2 /\ Len(pagelog[1][2].ocr) = 1
    /\ pc[2] = "failed" /\ failure[2].page = 1

\* The tokens of the last OCR invocation of a logged page.
LastData(page) == page.ocr[Len(page.ocr)].data

\* C22: on a page where the OCR fallback ran, each OCR line is merged at the
\* pixel coordinates of its token in the picture of three pixels per page
\* unit, each image at the page coordinates of its block, and an OCR line
\* stands before an image exactly when its raw (top, left) is not greater
\* than the image's.
MixedUnits ==
    \A p \in 1..Len(pagelog[1]) :
        LET page == pagelog[1][p]
            merged == page.merged
        IN  page.ocr # <<>> =>
                /\ \A i \in 1..Len(merged) : merged[i][3] = "text" =>
                       \E k \in 1..Len(LastData(page)) :
                           /\ merged[i][1] = LastData(page)[k].top
                           /\ merged[i][2] = LastData(page)[k].left
                /\ \A j \in 1..Len(merged) : merged[j][3] = "image" =>
                       \E b \in 1..Len(page.blocks) :
                           /\ merged[j][1] = BlockBBox(page.blocks[b])[2]
                           /\ merged[j][2] = BlockBBox(page.blocks[b])[1]
                /\ \A i, j \in 1..Len(merged) :
                       (merged[i][3] = "text" /\ merged[j][3] = "image") =>
                           (i < j <=> ~LexLess(<<merged[j][1], merged[j][2]>>,
                                              <<merged[i][1], merged[i][2]>>))

\* A page with the word of row 1 and the image of row 2: the image, lower on
\* the page, comes first, for its 2 is less than the 3 pixels of the word.
MixedUnitsWitness ==
    /\ Len(pagelog[1]) >= 1
    /\ pagelog[1][1].blocks = <<LowBlock>>
    /\ LastData(pagelog[1][1]) = OcrRow1
    /\ pagelog[1][1].merged = << <<2, 0, "image", ImageName(1)>>, <<3, 0, "text", <<"a">>>> >>

\* The lines of a text that are placeholders, in their order.
PlaceholderLines(text) ==
    SelectSeq(TerminatedLines(text), LAMBDA l : Len(l) >= 2 /\ l[1] = "[" /\ l[Len(l)] = "]")

\* The names the placeholders of a text carry.
PlaceholderNames(text) ==
    {SubSeq(PlaceholderLines(text)[i], 2, Len(PlaceholderLines(text)[i]) - 1) :
        i \in 1..Len(PlaceholderLines(text))}

\* C23: in the text a finished extraction returns, there is one placeholder
\* for each non-text block, it names a file the run has written, and every
\* file the run has written, which are the files of the directory, is named
\* by a placeholder.
ReferentialIntegrity ==
    pc[1] = "done" =>
        LET text == response[1].txt_content
            written == {writes[1][i].name : i \in 1..Len(writes[1])}
        IN  /\ Len(PlaceholderLines(text)) = Len(assign[1])
            /\ \A i \in 1..Len(assign[1]) :
                   /\ \E k \in 1..Len(PlaceholderLines(text)) :
                          PlaceholderLines(text)[k] = <<"[">> \o assign[1][i].name \o <<"]">>
                   /\ assign[1][i].name \in written
            /\ PlaceholderNames(text) \subseteq written
            /\ written \subseteq PlaceholderNames(text)
            /\ written = images_dir[1]

\* A finished run with an image on its first page and, on its second, the
\* same image and a block that is cropped: three placeholders, two files.
ReferentialIntegrityWitness ==
    /\ pc[1] = "done"
    /\ Len(pagelog[1]) = 2
    /\ pagelog[1][1].blocks = <<ImageBlock7>>
    /\ pagelog[1][2].blocks = <<ImageBlock7, VectorBlock>>
    /\ Len(PlaceholderLines(response[1].txt_content)) = 3
    /\ images_dir[1] = {ImageName(1), ImageName(2)}

\* An image block whose xref is missing, None or 0.
IsFalsyImage(a) == BlockType(a.block) = 1 /\ BlockXref(a.block) \in {None, 0}

\* C24: an image block whose xref is missing, None or 0 gets, each time it
\* is met, the next number and a file cropped from the page, and leaves the
\* map as it was; the map never has the key 0, and no two such blocks have
\* the same file name.  This holds for the server and for the script.
FalsyIdentity ==
    \A c \in Calls :
        /\ 0 \notin DOMAIN xref_to_filename[c]
        /\ None \notin DOMAIN xref_to_filename[c]
        /\ \A i \in 1..Len(assign[c]) :
               LET a == assign[c][i]
                   counter == IF i = 1 THEN 0 ELSE assign[c][i - 1].counter
                   map == IF i = 1 THEN EmptyMap ELSE assign[c][i - 1].map
                   nwrites == IF i = 1 THEN 0 ELSE assign[c][i - 1].nwrites
               IN  IsFalsyImage(a) =>
                       /\ a.counter = counter + 1
                       /\ a.name = ImageName(a.counter)
                       /\ a.map = map
                       /\ a.nwrites = nwrites + 1
                       /\ writes[c][a.nwrites] = [name |-> a.name, xref |-> None]
                       /\ \A j \in 1..Len(assign[c]) :
                              j # i => assign[c][j].name # a.name

\* A request and a run of the script on a page of two image blocks of xref
\* 0: two names, two files, in each.
FalsyIdentityWitness ==
    /\ pc[1] = "done" /\ pc[2] = "done"
    /\ \A c \in Calls :
           /\ Len(assign[c]) = 2
           /\ assign[c][1].block = ZeroBlock /\ assign[c][2].block = ZeroBlock
           /\ assign[c][1].name = ImageName(1) /\ assign[c][2].name = ImageName(2)
           /\ images_dir[c] = {ImageName(1), ImageName(2)}

\* The names IMAGE_0001 .. IMAGE_<n>, in increasing order.
NamesUpTo(n) == [i \in 1..n |-> ImageName(i)]

\* C25: before and after every block of a run of the server, image_list is
\* the list of the names IMAGE_0001 .. IMAGE_<image_counter>, each once; the
\* answer of a finished run lists them, and its image_count is the number of
\* files the run has written.
ImageListBookkeeping ==
    /\ image_list[1] = NamesUpTo(image_counter[1])
    /\ \A i \in 1..Len(assign[1]) : assign[1][i].listed = NamesUpTo(assign[1][i].counter)
    /\ pc[1] = "done" =>
           /\ response[1].images = NamesUpTo(image_counter[1])
           /\ response[1].image_count = Len(writes[1])
           /\ response[1].image_count = Cardinality(images_dir[1])
           /\ response[1].image_count = image_counter[1]

\* A finished run that met the same image twice and a cropped block:
\* two names in the list, and an image_count of 2.
ImageListBookkeepingWitness ==
    /\ pc[1] = "done"
    /\ Len(assign[1]) = 3
    /\ Cardinality({i \in 1..3 : assign[1][i].block = ImageBlock7}) = 2
    /\ \E i \in 1..3 : assign[1][i].block = VectorBlock
    /\ response[1].image_count = 2
    /\ response[1].images = <<ImageName(1), ImageName(2)>>

\* The requests to /cleanup for a session that have succeeded.
Cleaned(session_id) ==
    {k \in 1..Len(served) :
        /\ served[k].op = "cleanup" /\ served[k].session = session_id
        /\ served[k].status = 200}

\* C26: a session id is stored exactly when its /extract has been answered
\* with success and no /cleanup for it has succeeded; /image and /cleanup
\* answer 404 for an id that is not stored; a /cleanup that succeeds removes
\* the id and the directory; and every later /image or /cleanup for that id
\* answers 404.
SessionLifecycle ==
    /\ \A c \in Calls :
           c \in active_sessions <=> (response[c].status = 200 /\ Cleaned(c) = {})
    /\ \A k \in 1..Len(served) :
           /\ served[k].session \notin served[k].before => served[k].status = 404
           /\ k \in Cleaned(served[k].session) =>
                  /\ served[k].session \in served[k].before
                  /\ served[k].after = served[k].before \ {served[k].session}
                  /\ ~served[k].dir
           /\ k \notin Cleaned(served[k].session) => served[k].after = served[k].before
           /\ \A j \in 1..(k - 1) :
                  (j \in Cleaned(served[j].session) /\ served[k].session = served[j].session)
                      => served[k].status = 404
    /\ \A c \in Calls : Cleaned(c) # {} => ~session_dir[c]

\* An image of the first session is served, the session is cleaned up, and
\* the same image is then asked for again; the second request has failed.
SessionLifecycleWitness ==
    /\ Len(served) = 3
    /\ served[1].op = "image" /\ served[1].session = 1 /\ served[1].status = 200
    /\ served[2].op = "cleanup" /\ served[2].session = 1 /\ served[2].status = 200
    /\ served[3].op = "image" /\ served[3].session = 1 /\ served[3].status = 404
    /\ pc[2] = "failed" /\ 2 \notin active_sessions

\* The requests of a client an endpoint let through in the window that ends
\* with request k, and those any endpoint let through.
LetThrough(k, endpoints_counted) ==
    {j \in 1..k :
        /\ answered[j].identifier = answered[k].identifier
        /\ answered[j].endpoint \in endpoints_counted
        /\ answered[j].status = 200
        /\ answered[k].time - answered[j].time < Window}

\* Two requests to the cheap endpoint are let through, a request of the same
\* client to the expensive endpoint is refused although that endpoint has let
\* none through, and when the window has passed the expensive endpoint lets
\* one through.
SequentialLimitWitness ==
    /\ Len(answered) = 4
    /\ \A k \in 1..4 : answered[k].identifier = "10.0.0.1"
    /\ answered[1].endpoint = "prompt_system_guardrails" /\ answered[1].status = 200
    /\ answered[2].endpoint = "prompt_system_guardrails" /\ answered[2].status = 200
    /\ answered[3].endpoint = "mineru_extract" /\ answered[3].status = 429
    /\ answered[4].endpoint = "mineru_extract" /\ answered[4].status = 200
    /\ answered[4].before # <<>> /\ answered[4].after = << answered[4].time >>

\* C27: with requests handled one at a time, a request is let through
\* exactly when fewer than max_requests times younger than the window are
\* left for its client, whichever endpoints they were let through to; a
\* refused request adds no time; and no endpoint lets more than its
\* max_requests requests of one client through within a window.
SequentialLimit ==
    \A k \in 1..Len(answered) :
        /\ answered[k].status \in {200, 429}
        /\ answered[k].status = 200 <=>
               Len(Pruned(answered[k].before, answered[k].time))
                   < max_requests(answered[k].endpoint)
        /\ answered[k].status = 200 <=>
               Cardinality(LetThrough(k, Endpoints) \ {k})
                   < max_requests(answered[k].endpoint)
        /\ answered[k].status = 429 =>
               answered[k].after = Pruned(answered[k].before, answered[k].time)
        /\ answered[k].status = 200 =>
               /\ answered[k].after =
                      Append(Pruned(answered[k].before, answered[k].time), answered[k].time)
               /\ Cardinality(LetThrough(k, {answered[k].endpoint}))
                      <= max_requests(answered[k].endpoint)

\* The requests of the client of request k that its endpoint let through
\* from the time of k on and less than a window later.
LetThroughFrom(k) ==
    {j \in 1..Len(answered) :
        /\ answered[j].identifier = answered[k].identifier
        /\ answered[j].endpoint = answered[k].endpoint
        /\ answered[j].status = 200
        /\ answered[j].time >= answered[k].time
        /\ answered[j].time - answered[k].time < Window}

\* How often a time stands in a list.
Occurrences(times, req_time) ==
    Cardinality({i \in 1..Len(times) : times[i] = req_time})

\* C28: with the requests of one client handled by two threads at once, no
\* endpoint lets more than its max_requests requests through within a
\* window, and the time of every request let through less than a window
\* ago stands in the stored list of its client.
ConcurrentLimit ==
    \A k \in 1..Len(answered) :
        answered[k].status = 200 =>
            /\ Cardinality(LetThroughFrom(k)) <= max_requests(answered[k].endpoint)
            /\ clock - answered[k].time < Window =>
                   Occurrences(rate_limit_store[answered[k].identifier], answered[k].time)
                       >= Cardinality({j \in 1..Len(answered) :
                              /\ answered[j].identifier = answered[k].identifier
                              /\ answered[j].status = 200
                              /\ answered[j].time = answered[k].time})

\* The pages of a document with an image block that covers less than nine
\* tenths of the page, where every image block of a page of no area does.
SmallImages(doc) ==
    {p \in 1..Len(doc) :
        \E i \in 1..Len(doc[p].blocks) :
            /\ doc[p].blocks[i].type = 1
            /\ \/ doc[p].width * doc[p].height = 0
               \/ 10 * (doc[p].blocks[i].bbox[3] - doc[p].blocks[i].bbox[1])
                       * (doc[p].blocks[i].bbox[4] - doc[p].blocks[i].bbox[2])
                      < 9 * (doc[p].width * doc[p].height)}

\* C29: has_true_images is True exactly when some page has an image block
\* whose box covers less than 90% of the page, every image block of a page
\* of no area counting as one, and False for a document with no image
\* block; /check-flattening answers is_flattened as its negation and
\* recommends "backend" exactly when it is True, "mineru" otherwise.
FlatteningCheck ==
    flattening.status = 200 =>
        /\ flattening.has_true_images = (SmallImages(flattening.doc) # {})
        /\ (\A p \in 1..Len(flattening.doc) :
                \A i \in 1..Len(flattening.doc[p].blocks) :
                    flattening.doc[p].blocks[i].type # 1)
               => ~flattening.has_true_images
        /\ flattening.is_flattened = ~flattening.has_true_images
        /\ flattening.recommendation =
               IF flattening.has_true_images THEN "backend" ELSE "mineru"

\* A document whose first page is covered by an image block and whose second
\* page, of no area, has an image block is answered with "backend".
FlatteningCheckWitness ==
    /\ flattening.status = 200
    /\ Len(flattening.doc) = 2
    /\ flattening.doc[1].width = 10
    /\ flattening.doc[1].blocks = << [type |-> 1, bbox |-> << 0, 0, 10, 10 >>] >>
    /\ flattening.doc[2].width = 0
    /\ flattening.doc[2].blocks = << [type |-> 1, bbox |-> << 0, 0, 10, 10 >>] >>
    /\ flattening.has_true_images /\ flattening.recommendation = "backend"

====
